---------------------------- MODULE Spec2Model ----------------------------
(***************************************************************************)
(* Data Alchemist: the validation engine (FileParser), the zustand data    *)
(* store and their interplay.                                              *)
(*                                                                         *)
(* Representation.  A JavaScript string whose characters the code inspects *)
(* (ids, list cells, numbers, headers) is a sequence of one-character      *)
(* strings, so trim(), split(), Number(), parseInt() and toLowerCase() are *)
(* computed character by character.  A message built from a template       *)
(* literal is the sequence of its fragments: the literal parts are single  *)
(* elements, the interpolated parts are spliced in character by character. *)
(* A JavaScript value is a tagged record (Str, Num, Arr, NaN, Undef); an   *)
(* object (a raw row, a coerced entity) is a function from keys to values. *)
(***************************************************************************)
EXTENDS Integers, Sequences, FiniteSets, TLC

VARIABLES
    clients,                \* store: Client[]
    workers,                \* store: Worker[]
    tasks,                  \* store: Task[]
    clientValidationResults,\* store: ValidationResult<Client> | null
    workerValidationResults,\* store: ValidationResult<Worker> | null
    taskValidationResults,  \* store: ValidationResult<Task> | null
    lastOp,                 \* the store action (or parser call) that ran last
    runs,                   \* validateCrossReferences calls since the last upload
    edits,                  \* grid edits of a task since the last upload
    input,                  \* the arguments of the function called on its own:
                            \* FileParser.validateData, AIService.suggestHeaderMapping
    output,                 \* what it returned (Null before the call)
    rules,                  \* RuleBuilder: useState<Rule[]>
    currentRule,            \* RuleBuilder: useState<Partial<Rule>>, the form
    editingIndex,           \* RuleBuilder: useState<number | null>
    search,                 \* validateCircularDependencies run step by step:
                            \* its locals and the frames of hasCycle
    grid                    \* DataGrid: its props and its state

vars == <<clients, workers, tasks, clientValidationResults,
          workerValidationResults, taskValidationResults, lastOp, runs, edits,
          input, output, rules, currentRule, editingIndex, search, grid>>

storeVars == <<clients, workers, tasks, clientValidationResults,
               workerValidationResults, taskValidationResults, runs,
               edits>>

parserVars == <<input, output>>

ruleVars == <<rules, currentRule, editingIndex>>

viewVars == <<search, grid>>

-----------------------------------------------------------------------------
(* Bounds of the model *)

\* rows per uploaded file
MaxRows == 3

\* validateCrossReferences calls explored after one upload or edit
MaxRuns == 2

\* grid edits explored after one upload of tasks
MaxEdits == 1

\* headers per call of suggestHeaderMapping
MaxHeaders == 2

\* rules held by the rule builder
MaxRules == 2

\* the longest text of a preferredPhases cell
MaxChars == 5

\* the most rows of a file handed to parseFile
MaxFileRows == 1

\* the most tasks of a collection handed to validateCircularDependencies
MaxTasks == 3

-----------------------------------------------------------------------------
(* Sequences *)

Range(s) == {s[i] : i \in 1..Len(s)}

\* [...a, ...b, ...] over a sequence of sequences
RECURSIVE Flatten(_)
Flatten(ss) == IF ss = <<>> THEN <<>> ELSE Head(ss) \o Flatten(Tail(ss))

Min2(a, b) == IF a < b THEN a ELSE b

Max2(a, b) == IF a > b THEN a ELSE b

-----------------------------------------------------------------------------
(* JavaScript strings, character by character *)

Digits == <<"0", "1", "2", "3", "4", "5", "6", "7", "8", "9">>

IsDigit(c) == c \in Range(Digits)

DigitVal(c) == (CHOOSE i \in 1..10 : Digits[i] = c) - 1

IsSpace(c) == c = " "

\* String.prototype.trim
RECURSIVE TrimStart(_)
TrimStart(s) ==
    IF s # <<>> /\ IsSpace(Head(s)) THEN TrimStart(Tail(s)) ELSE s

RECURSIVE TrimEnd(_)
TrimEnd(s) ==
    IF s # <<>> /\ IsSpace(s[Len(s)]) THEN TrimEnd(SubSeq(s, 1, Len(s) - 1)) ELSE s

Trim(s) == TrimEnd(TrimStart(s))

\* String.prototype.split(c) for a one-character separator: always at least
\* one piece, empty pieces kept
RECURSIVE Split(_, _)
Split(s, c) ==
    IF \E i \in 1..Len(s) : s[i] = c
    THEN LET i == CHOOSE k \in 1..Len(s) :
                      s[k] = c /\ \A j \in 1..(k - 1) : s[j] # c
         IN  <<SubSeq(s, 1, i - 1)>> \o Split(SubSeq(s, i + 1, Len(s)), c)
    ELSE <<s>>

\* String.prototype.includes(c)
Includes(s, c) == \E i \in 1..Len(s) : s[i] = c

\* Array.prototype.join(sep): sep is a sequence of fragments
RECURSIVE Join(_, _)
Join(ss, sep) ==
    IF ss = <<>> THEN <<>>
    ELSE IF Len(ss) = 1 THEN ss[1]
    ELSE ss[1] \o sep \o Join(Tail(ss), sep)

\* val.replace(/[\[\]]/g, '')
RECURSIVE StripBrackets(_)
StripBrackets(s) ==
    IF s = <<>> THEN <<>>
    ELSE (IF Head(s) \in {"[", "]"} THEN <<>> ELSE <<Head(s)>>)
         \o StripBrackets(Tail(s))

\* h.replace(/\s+/g, '')
RECURSIVE StripSpaces(_)
StripSpaces(s) ==
    IF s = <<>> THEN <<>>
    ELSE (IF IsSpace(Head(s)) THEN <<>> ELSE <<Head(s)>>) \o StripSpaces(Tail(s))

Upper == <<"A", "B", "C", "D", "E", "F", "G", "H", "I", "J", "K", "L", "M",
           "N", "O", "P", "Q", "R", "S", "T", "U", "V", "W", "X", "Y", "Z">>

Lower == <<"a", "b", "c", "d", "e", "f", "g", "h", "i", "j", "k", "l", "m",
           "n", "o", "p", "q", "r", "s", "t", "u", "v", "w", "x", "y", "z">>

LowerChar(c) ==
    IF c \in Range(Upper) THEN Lower[CHOOSE i \in 1..26 : Upper[i] = c] ELSE c

\* String.prototype.toLowerCase
ToLowerCase(s) == [i \in 1..Len(s) |-> LowerChar(s[i])]

\* the value of a run of decimal digits
RECURSIVE DigitsValue(_)
DigitsValue(s) ==
    IF s = <<>> THEN 0
    ELSE 10 * DigitsValue(SubSeq(s, 1, Len(s) - 1)) + DigitVal(s[Len(s)])

AllDigits(s) == s # <<>> /\ \A i \in 1..Len(s) : IsDigit(s[i])

\* the longest prefix of s made of digits
RECURSIVE DigitPrefix(_)
DigitPrefix(s) ==
    IF s # <<>> /\ IsDigit(Head(s)) THEN <<Head(s)>> \o DigitPrefix(Tail(s))
    ELSE <<>>

\* String(n) for an integer
RECURSIVE NatToString(_)
NatToString(n) ==
    IF n < 10 THEN <<Digits[n + 1]>>
    ELSE NatToString(n \div 10) \o <<Digits[(n % 10) + 1]>>

IntToString(n) == IF n < 0 THEN <<"-">> \o NatToString(-n) ELSE NatToString(n)

-----------------------------------------------------------------------------
(* Property names and column headers, as strings *)

k_id == <<"i", "d">>

k_requestedTaskIDs == <<"r", "e", "q", "u", "e", "s", "t", "e", "d", "T", "a", "s", "k", "I", "D", "s">>

k_ClientID == <<"C", "l", "i", "e", "n", "t", "I", "D">>

k_Client_ID == <<"C", "l", "i", "e", "n", "t", "_", "I", "D">>

k_WorkerID == <<"W", "o", "r", "k", "e", "r", "I", "D">>

k_TaskID == <<"T", "a", "s", "k", "I", "D">>

k_name == <<"n", "a", "m", "e">>

k_title == <<"t", "i", "t", "l", "e">>

k_priorityLevel == <<"p", "r", "i", "o", "r", "i", "t", "y", "L", "e", "v", "e", "l">>

k_skills == <<"s", "k", "i", "l", "l", "s">>

k_availableSlots == <<"a", "v", "a", "i", "l", "a", "b", "l", "e", "S", "l", "o", "t", "s">>

k_maxLoadPerPhase == <<"m", "a", "x", "L", "o", "a", "d", "P", "e", "r", "P", "h", "a", "s", "e">>

k_capacity == <<"c", "a", "p", "a", "c", "i", "t", "y">>

k_maxHoursPerWeek == <<"m", "a", "x", "H", "o", "u", "r", "s", "P", "e", "r", "W", "e", "e", "k">>

k_duration == <<"d", "u", "r", "a", "t", "i", "o", "n">>

k_requiredSkills == <<"r", "e", "q", "u", "i", "r", "e", "d", "S", "k", "i", "l", "l", "s">>

k_preferredPhases == <<"p", "r", "e", "f", "e", "r", "r", "e", "d", "P", "h", "a", "s", "e", "s">>

k_maxConcurrent == <<"m", "a", "x", "C", "o", "n", "c", "u", "r", "r", "e", "n", "t">>

k_assignedTo == <<"a", "s", "s", "i", "g", "n", "e", "d", "T", "o">>

k_assignedto == <<"a", "s", "s", "i", "g", "n", "e", "d", "t", "o">>

k_clientId == <<"c", "l", "i", "e", "n", "t", "I", "d">>

k_clientid == <<"c", "l", "i", "e", "n", "t", "i", "d">>

k_dependencies == <<"d", "e", "p", "e", "n", "d", "e", "n", "c", "i", "e", "s">>

k_estimatedHours == <<"e", "s", "t", "i", "m", "a", "t", "e", "d", "H", "o", "u", "r", "s">>

k_estimatedhours == <<"e", "s", "t", "i", "m", "a", "t", "e", "d", "h", "o", "u", "r", "s">>

k_actualHours == <<"a", "c", "t", "u", "a", "l", "H", "o", "u", "r", "s">>

k_actualhours == <<"a", "c", "t", "u", "a", "l", "h", "o", "u", "r", "s">>

k_file == <<"f", "i", "l", "e">>

k_phaseCapacity == <<"p", "h", "a", "s", "e", "C", "a", "p", "a", "c", "i", "t", "y">>

k_ClientName == <<"C", "l", "i", "e", "n", "t", "N", "a", "m", "e">>

k_PriorityLevel == <<"P", "r", "i", "o", "r", "i", "t", "y", "L", "e", "v", "e", "l">>

k_WorkerName == <<"W", "o", "r", "k", "e", "r", "N", "a", "m", "e">>

k_Skills == <<"S", "k", "i", "l", "l", "s">>

k_AvailableSlots == <<"A", "v", "a", "i", "l", "a", "b", "l", "e", "S", "l", "o", "t", "s">>

k_TaskName == <<"T", "a", "s", "k", "N", "a", "m", "e">>

k_Duration == <<"D", "u", "r", "a", "t", "i", "o", "n">>

k_RequiredSkills == <<"R", "e", "q", "u", "i", "r", "e", "d", "S", "k", "i", "l", "l", "s">>

-----------------------------------------------------------------------------
(* JavaScript values *)

Str(s) == [t |-> "str", s |-> s]

Num(n) == [t |-> "num", n |-> n]

Arr(a) == [t |-> "arr", a |-> a]

NaN == [t |-> "nan"]

Undef == [t |-> "undef"]

Null == [t |-> "null"]

IsStr(v) == v.t = "str"

IsNum(v) == v.t = "num"

IsArr(v) == v.t = "arr"

\* typeof v === 'string', Array.isArray(v), isNaN(v) for a number value
IsNaN(v) == v.t = "nan"

\* v !== null && v !== undefined
Present(v) == v.t \notin {"undef", "null"}

\* the truthiness of a value: '', 0, NaN, null and undefined are falsy
Truthy(v) ==
    CASE v.t = "str" -> v.s # <<>>
      [] v.t = "num" -> v.n # 0
      [] v.t = "arr" -> TRUE
      [] OTHER -> FALSE

\* a || b
Or(a, b) == IF Truthy(a) THEN a ELSE b

\* a ?? b
Coalesce(a, b) == IF Present(a) THEN a ELSE b

\* Number(v) on the integers: '' and blanks are 0, a signed run of digits is
\* its value, any other text is NaN
StringToNumber(s) ==
    LET t == Trim(s)
    IN  IF t = <<>> THEN Num(0)
        ELSE IF AllDigits(t) THEN Num(DigitsValue(t))
        ELSE IF Head(t) = "-" /\ AllDigits(Tail(t)) THEN Num(-DigitsValue(Tail(t)))
        ELSE IF Head(t) = "+" /\ AllDigits(Tail(t)) THEN Num(DigitsValue(Tail(t)))
        ELSE NaN

Number(v) ==
    CASE v.t = "str" -> StringToNumber(v.s)
      [] v.t = "num" -> v
      [] v.t = "null" -> Num(0)
      [] OTHER -> NaN

\* parseInt(s): leading blanks skipped, an optional sign, then the longest
\* run of digits; NaN when there is none
ParseInt(s) ==
    LET t == TrimStart(s)
        neg == t # <<>> /\ Head(t) = "-"
        u == IF t # <<>> /\ Head(t) \in {"-", "+"} THEN Tail(t) ELSE t
        d == DigitPrefix(u)
    IN  IF d = <<>> THEN NaN
        ELSE Num(IF neg THEN -DigitsValue(d) ELSE DigitsValue(d))

\* String(v)
JsString(v) ==
    CASE v.t = "str" -> v.s
      [] v.t = "num" -> IntToString(v.n)
      [] v.t = "nan" -> <<"NaN">>
      [] v.t = "null" -> <<"null">>
      [] v.t = "undef" -> <<"undefined">>
      [] v.t = "arr" -> Join([i \in 1..Len(v.a) |-> v.a[i]], <<",">>)

-----------------------------------------------------------------------------
(* JavaScript objects: functions from property names to values *)

\* obj.k (undefined when the property is absent)
Get(obj, k) == IF k \in DOMAIN obj THEN obj[k] ELSE Undef

\* { ...obj, k: v }
With(obj, k, v) == [x \in DOMAIN obj \cup {k} |-> IF x = k THEN v ELSE obj[x]]

\* { ...a, ...b }
Spread(a, b) ==
    [x \in DOMAIN a \cup DOMAIN b |-> IF x \in DOMAIN b THEN b[x] ELSE a[x]]

\* the object literal with the given properties, the undefined ones left out
Object(keys, Val(_)) == [k \in {x \in keys : Val(x).t # "undef"} |-> Val(k)]

-----------------------------------------------------------------------------
(* The zod schemas of src/types/data-models.ts.  Modelled columns:           *)
(* clients id, name, priorityLevel, requestedTaskIDs; workers id, name,      *)
(* skills, availableSlots, maxLoadPerPhase; tasks id, title, duration,       *)
(* requiredSkills, preferredPhases, maxConcurrent, assignedTo, clientId,     *)
(* estimatedHours, actualHours, dependencies (and the legacy lower-case      *)
(* names).  A cell is a string (a number in a spreadsheet) or absent.        *)
(* A parse yields status valid | dirty | aborted, the issues in shape order  *)
(* and the value.                                                            *)

Issue(path, message) == [path |-> path, message |-> message]

Field(status, issues, value) == [status |-> status, issues |-> issues, value |-> value]

\* z.string().min(1, message)
ZString(v, key, message) ==
    IF ~IsStr(v)
    THEN Field("aborted", <<Issue(<<key>>, IF v.t = "undef" THEN "Required"
                                          ELSE "Expected string")>>, Undef)
    ELSE IF v.s = <<>> THEN Field("dirty", <<Issue(<<key>>, message)>>, v)
    ELSE Field("valid", <<>>, v)

\* z.string().optional()
ZOptionalString(v, key) ==
    IF v.t = "undef" THEN Field("valid", <<>>, Undef)
    ELSE IF ~IsStr(v) THEN Field("aborted", <<Issue(<<key>>, "Expected string")>>, Undef)
    ELSE Field("valid", <<>>, v)

\* z.any().optional()
ZAny(v) == Field("valid", <<>>, v)

\* val ? val.split(',').map(s => s.trim()).filter(s => s.length > 0) : []
SplitList(s) ==
    IF s = <<>> THEN <<>>
    ELSE LET parts == Split(s, ",")
             trimmed == [i \in 1..Len(parts) |-> Trim(parts[i])]
         IN  SelectSeq(trimmed, LAMBDA p : Len(p) > 0)

\* z.string().transform(split list).optional()
ZStringList(v, key) ==
    IF v.t = "undef" THEN Field("valid", <<>>, Undef)
    ELSE IF ~IsStr(v) THEN Field("aborted", <<Issue(<<key>>, "Expected string")>>, Undef)
    ELSE Field("valid", <<>>, Arr(SplitList(v.s)))

\* cleaned.split(',').map(s => parseInt(s.trim())).filter(n => !isNaN(n))
ParseIntList(cleaned) ==
    LET parts == Split(cleaned, ",")
        nums == [i \in 1..Len(parts) |-> ParseInt(Trim(parts[i]))]
        kept == SelectSeq(nums, LAMBDA n : ~IsNaN(n))
    IN  [i \in 1..Len(kept) |-> kept[i].n]

\* WorkerSchema.availableSlots
AvailableSlotsTransform(s) ==
    IF s = <<>> \/ Trim(s) = <<>> THEN <<>>
    ELSE ParseIntList(StripBrackets(s))

\* TaskSchema.preferredPhases
PreferredPhasesTransform(s) ==
    IF s = <<>> \/ Trim(s) = <<>> THEN <<>>
    ELSE LET cleaned == Trim(StripBrackets(s))
             halves == Split(cleaned, "-")
             start == ParseInt(Trim(halves[1]))
             end == IF Len(halves) >= 2 THEN ParseInt(Trim(halves[2])) ELSE NaN
         IN  IF /\ Includes(cleaned, "-")
                /\ ~IsNaN(start) /\ ~IsNaN(end)
                /\ start.n <= end.n
             THEN [i \in 1..(end.n - start.n + 1) |-> start.n + i - 1]
             ELSE ParseIntList(cleaned)

\* z.string().transform(f).optional() for the two number-list columns
ZNumberList(v, key, F(_)) ==
    IF v.t = "undef" THEN Field("valid", <<>>, Undef)
    ELSE IF ~IsStr(v) THEN Field("aborted", <<Issue(<<key>>, "Expected string")>>, Undef)
    ELSE Field("valid", <<>>, Arr(F(v.s)))

\* z.union([z.string(), z.number()]).transform(val => { const num =
\* Number(val); return isNaN(num) ? dflt : clamp(num) }).default(dflt)
ZClamped(v, key, dflt, lo, hi) ==
    LET val == IF v.t = "undef" THEN Num(dflt) ELSE v
        num == Number(val)
    IN  IF val.t \notin {"str", "num"}
        THEN Field("aborted", <<Issue(<<key>>, "Invalid input")>>, Undef)
        ELSE Field("valid", <<>>,
                   IF IsNaN(num) THEN Num(dflt)
                   ELSE Num(Min2(Max2(num.n, lo), hi)))

\* the same with Math.max(num, lo) alone: no upper limit
ZAtLeast(v, key, dflt, lo) ==
    LET val == IF v.t = "undef" THEN Num(dflt) ELSE v
        num == Number(val)
    IN  IF val.t \notin {"str", "num"}
        THEN Field("aborted", <<Issue(<<key>>, "Invalid input")>>, Undef)
        ELSE Field("valid", <<>>,
                   IF IsNaN(num) THEN Num(dflt) ELSE Num(Max2(num.n, lo)))

\* z.object({...}): the fields in shape order; aborted when a field is,
\* dirty when a field is, else valid; the value holds the defined fields
ZObject(keys, fields) ==
    LET results == [i \in 1..Len(keys) |-> fields[keys[i]]]
        statuses == {results[i].status : i \in 1..Len(keys)}
    IN  Field(IF "aborted" \in statuses THEN "aborted"
              ELSE IF "dirty" \in statuses THEN "dirty" ELSE "valid",
              Flatten([i \in 1..Len(keys) |-> results[i].issues]),
              Object(Range(keys), LAMBDA k : fields[k].value))

\* schema.safeParse(row): success only when the status is valid
SafeParse(parsed) ==
    [success |-> parsed.status = "valid",
     data |-> parsed.value,
     issues |-> parsed.issues]

ClientShape == <<k_id, k_name, k_priorityLevel, k_requestedTaskIDs>>

ClientSchema(row) ==
    ZObject(ClientShape,
            [k \in Range(ClientShape) |->
                CASE k = k_id -> ZString(Get(row, k), k, "ClientID is required")
                  [] k = k_name -> ZString(Get(row, k), k, "ClientName is required")
                  [] k = k_priorityLevel -> ZClamped(Get(row, k), k, 1, 1, 5)
                  [] k = k_requestedTaskIDs -> ZStringList(Get(row, k), k)])

WorkerShape == <<k_id, k_name, k_skills, k_availableSlots, k_maxLoadPerPhase>>

\* the object-level transform of WorkerSchema keeps the fields it names
WorkerSchema(row) ==
    ZObject(WorkerShape,
            [k \in Range(WorkerShape) |->
                CASE k = k_id -> ZString(Get(row, k), k, "WorkerID is required")
                  [] k = k_name -> ZString(Get(row, k), k, "WorkerName is required")
                  [] k = k_skills -> ZStringList(Get(row, k), k)
                  [] k = k_availableSlots ->
                        ZNumberList(Get(row, k), k, AvailableSlotsTransform)
                  [] k = k_maxLoadPerPhase ->
                        ZAtLeast(Get(row, k), k, 8, 1)])

TaskShape == <<k_id, k_title, k_duration, k_requiredSkills, k_preferredPhases,
               k_maxConcurrent, k_assignedTo, k_assignedto, k_clientId,
               k_clientid, k_estimatedHours, k_estimatedhours, k_actualHours,
               k_actualhours, k_dependencies>>

TaskObject(row) ==
    ZObject(TaskShape,
            [k \in Range(TaskShape) |->
                CASE k = k_id -> ZString(Get(row, k), k, "TaskID is required")
                  [] k = k_title -> ZString(Get(row, k), k, "TaskName is required")
                  [] k = k_duration -> ZAtLeast(Get(row, k), k, 1, 1)
                  [] k = k_requiredSkills -> ZStringList(Get(row, k), k)
                  [] k = k_preferredPhases ->
                        ZNumberList(Get(row, k), k, PreferredPhasesTransform)
                  [] k = k_maxConcurrent -> ZAtLeast(Get(row, k), k, 1, 1)
                  [] k \in {k_assignedTo, k_assignedto, k_clientId, k_clientid} ->
                        ZOptionalString(Get(row, k), k)
                  [] k \in {k_estimatedHours, k_estimatedhours,
                            k_actualHours, k_actualhours} -> ZAny(Get(row, k))
                  [] k = k_dependencies -> ZStringList(Get(row, k), k)])

\* normalizeNumber of the task transform
NormalizeNumber(val) ==
    IF ~Present(val) \/ val = Str(<<>>) THEN Undef
    ELSE IF IsNaN(Number(val)) THEN Undef ELSE Number(val)

TaskResultKeys == {k_id, k_title, k_duration, k_requiredSkills, k_preferredPhases,
                   k_maxConcurrent, k_assignedTo, k_clientId, k_estimatedHours,
                   k_actualHours, k_dependencies}

\* .transform((data) => ...) of TaskSchema
TaskTransform(data) ==
    Object(TaskResultKeys,
           LAMBDA k :
              CASE k = k_assignedTo ->
                        Coalesce(Get(data, k_assignedTo), Get(data, k_assignedto))
                [] k = k_clientId ->
                        Coalesce(Get(data, k_clientId), Get(data, k_clientid))
                [] k = k_estimatedHours ->
                        NormalizeNumber(Coalesce(Get(data, k_estimatedHours),
                                                 Get(data, k_estimatedhours)))
                [] k = k_actualHours ->
                        NormalizeNumber(Coalesce(Get(data, k_actualHours),
                                                 Get(data, k_actualhours)))
                [] OTHER -> Get(data, k))

\* the code unit order of the characters of the model
CodeOrder == <<" ", "+", ",", "-">> \o Digits \o Upper \o <<"[", "]", "_">> \o Lower

CharCode(c) == CHOOSE i \in 1..Len(CodeOrder) : CodeOrder[i] = c

\* a > b for two strings (by code units; a proper prefix is smaller)
RECURSIVE StringGreater(_, _)
StringGreater(a, b) ==
    IF a = <<>> THEN FALSE
    ELSE IF b = <<>> THEN TRUE
    ELSE IF Head(a) = Head(b) THEN StringGreater(Tail(a), Tail(b))
    ELSE CharCode(Head(a)) > CharCode(Head(b))

\* a > b
Greater(a, b) ==
    CASE IsNum(a) /\ IsNum(b) -> a.n > b.n
      [] IsStr(a) /\ IsStr(b) -> StringGreater(a.s, b.s)
      [] OTHER -> FALSE

\* the .refine predicate of TaskSchema
TaskRefine(data) ==
    ~(/\ Truthy(Get(data, k_actualHours))
      /\ Truthy(Get(data, k_estimatedHours))
      /\ Greater(Get(data, k_actualHours), Get(data, k_estimatedHours)))

\* z.object(...).transform(...).refine(...): the transform runs on a valid
\* object only; the refinement runs unless the object is aborted
\* the outcome of .refine() on a parse of the given status and issues
Refined(status, issues, value, refused) ==
    Field(IF status = "valid" /\ refused THEN "dirty" ELSE status,
          issues \o (IF refused
                     THEN <<Issue(<<>>, "Actual hours cannot exceed estimated hours")>>
                     ELSE <<>>),
          value)

\* .transform() runs on a valid object only; .refine() runs unless aborted
Transformed(obj, value) ==
    Refined(obj.status, obj.issues, value,
            obj.status # "aborted" /\ ~TaskRefine(value))

TaskEffects(obj) ==
    Transformed(obj, IF obj.status = "valid" THEN TaskTransform(obj.value)
                     ELSE obj.value)

TaskSchema(row) == TaskEffects(TaskObject(row))

\* FileParser.getSchema
GetSchema(dataType, row) ==
    CASE dataType = "clients" -> ClientSchema(row)
      [] dataType = "workers" -> WorkerSchema(row)
      [] dataType = "tasks" -> TaskSchema(row)

-----------------------------------------------------------------------------
(* FileParser: the validators over the raw rows *)

\* a ValidationError
Error(row, field, message, value) ==
    [row |-> row, field |-> field, message |-> message, value |-> value]

\* data.forEach((row, index) => ...) collecting the errors each row pushes
ForEachRow(data, RowErrors(_, _)) ==
    Flatten([i \in 1..Len(data) |-> RowErrors(data[i], i)])

RequiredColumns(dataType) ==
    CASE dataType = "clients" -> <<k_ClientID, k_ClientName, k_PriorityLevel>>
      [] dataType = "workers" -> <<k_WorkerID, k_WorkerName, k_Skills, k_AvailableSlots>>
      [] dataType = "tasks" -> <<k_TaskID, k_TaskName, k_Duration, k_RequiredSkills>>

\* the test of headers.some(...) for one header
HeaderMatches(h, col) ==
    \/ h = col
    \/ ToLowerCase(h) = ToLowerCase(col)
    \/ StripSpaces(ToLowerCase(h)) = StripSpaces(ToLowerCase(col))

\* the value of a missing-column error names the headers of the first row
ValidateMissingRequiredColumns(data, dataType) ==
    IF Len(data) = 0 THEN <<>>
    ELSE LET headers == DOMAIN data[1]
             required == RequiredColumns(dataType)
         IN  Flatten([i \in 1..Len(required) |->
                 IF \E h \in headers : HeaderMatches(h, required[i]) THEN <<>>
                 ELSE <<Error(0, required[i],
                              <<"Missing required column: ">> \o required[i],
                              [t |-> "columns", headers |-> headers])>>])

\* String(row.id || row.ClientID || row.WorkerID || row.TaskID || '').trim()
RowId(row) ==
    Trim(JsString(Or(Get(row, k_id),
                  Or(Get(row, k_ClientID),
                  Or(Get(row, k_WorkerID),
                  Or(Get(row, k_TaskID), Str(<<>>)))))))

\* idCounts.get(id): the 1-based numbers of the rows with that id, ascending
RowNumbersOf(data, id) == SelectSeq([i \in 1..Len(data) |-> i],
                                    LAMBDA i : RowId(data[i]) = id)

DuplicateMessage(id, rowNumbers) ==
    <<"Duplicate ID \"">> \o id \o <<"\" found in rows: ">>
    \o Join([i \in 1..Len(rowNumbers) |-> IntToString(rowNumbers[i])], <<", ">>)

\* a detection that reports an id once, at its first row
FirstOccurrenceErrors(data) ==
    Flatten([i \in 1..Len(data) |->
        IF /\ RowId(data[i]) # <<>>
           /\ RowNumbersOf(data, RowId(data[i]))[1] = i
           /\ Len(RowNumbersOf(data, RowId(data[i]))) > 1
        THEN <<Error(i, k_id,
                     DuplicateMessage(RowId(data[i]),
                                      RowNumbersOf(data, RowId(data[i]))),
                     Str(RowId(data[i])))>>
        ELSE <<>>])

\* idCounts.forEach: the ids in the order of their first row; an id with more
\* than one row gets one error per row
DuplicateIdErrors(data) ==
    Flatten([i \in 1..Len(data) |->
        LET id == RowId(data[i])
            rowNumbers == RowNumbersOf(data, id)
        IN  IF id # <<>> /\ rowNumbers[1] = i /\ Len(rowNumbers) > 1
            THEN [j \in 1..Len(rowNumbers) |->
                     Error(rowNumbers[j], k_id,
                           DuplicateMessage(id, rowNumbers), Str(id))]
            ELSE <<>>])

\* `temp-${index}-${Date.now()}`
TempId(index, now) ==
    Str(<<"temp-">> \o IntToString(index) \o <<"-">> \o IntToString(now))

\* result = schema.safeParse(row), for every row of the file
ParseRows(data, dataType) ==
    [i \in 1..Len(data) |-> SafeParse(GetSchema(dataType, data[i]))]

\* { ...row, id: row.id || `temp-${index}-${Date.now()}` }
StampId(row, i, now) == With(row, k_id, Or(Get(row, k_id), TempId(i - 1, now)))

\* processedRow of the row at 1-based position i, result being its safeParse
ProcessedRow(row, result, i, now) ==
    IF result.success THEN StampId(result.data, i, now) ELSE StampId(row, i, now)

\* row[issue.path[0]] || ''
IssueValue(row, path) ==
    Or(IF path = <<>> THEN Undef ELSE Get(row, path[1]), Str(<<>>))

\* the errors pushed for the row at 1-based position i by the schema step
SchemaErrors(row, result, i) ==
    IF result.success THEN <<>>
    ELSE [j \in 1..Len(result.issues) |->
             Error(i, Join(result.issues[j].path, <<".">>),
                   <<result.issues[j].message>>,
                   Str(JsString(IssueValue(row, result.issues[j].path))))]

\* the worker capacity and task hours checks of validateOutOfRangeValues
\* (the hourlyRate and dueDate columns are not among the modelled columns)
ValidateOutOfRangeValues(data, dataType) ==
    ForEachRow(data, LAMBDA row, i :
        LET HoursErrors(key, negative, high) ==
                LET v == Get(row, key)
                    n == Number(v)
                IN  IF Present(v) /\ v # Str(<<>>) /\ ~IsNaN(n)
                    THEN IF n.n < 0
                         THEN <<Error(i, key, <<negative>>, Str(JsString(v)))>>
                         ELSE IF n.n > 10000
                         THEN <<Error(i, key, <<high>>, Str(JsString(v)))>>
                         ELSE <<>>
                    ELSE <<>>
            capacityField == Or(Get(row, k_capacity),
                             Or(Get(row, k_maxHoursPerWeek), Get(row, k_maxLoadPerPhase)))
            maxHours == Number(capacityField)
        IN  CASE dataType = "workers" ->
                   IF Present(capacityField) /\ capacityField # Str(<<>>) /\ ~IsNaN(maxHours)
                   THEN IF maxHours.n < 1
                        THEN <<Error(i, k_maxLoadPerPhase,
                                     <<"Max hours per week must be at least 1">>,
                                     Str(JsString(capacityField)))>>
                        ELSE IF maxHours.n > 168
                        THEN <<Error(i, k_maxLoadPerPhase,
                                     <<"Max hours per week cannot exceed 168 hours (24x7)">>,
                                     Str(JsString(capacityField)))>>
                        ELSE <<>>
                   ELSE <<>>
               [] dataType = "tasks" ->
                   HoursErrors(k_estimatedHours, "Estimated hours cannot be negative",
                               "Estimated hours seems unreasonably high (>10,000 hours)")
                   \o HoursErrors(k_actualHours, "Actual hours cannot be negative",
                                  "Actual hours seems unreasonably high (>10,000 hours)")
               [] OTHER -> <<>>)

\* slots.some(s => isNaN(s) || s < 1) over cleaned.split(',').map(parseInt)
SomeBadPhase(cleaned) ==
    LET parts == Split(cleaned, ",")
    IN  \E j \in 1..Len(parts) :
            LET n == ParseInt(Trim(parts[j])) IN IsNaN(n) \/ n.n < 1

ValidateMalformedLists(data, dataType) ==
    ForEachRow(data, LAMBDA row, i :
        CASE dataType = "workers" ->
               LET v == Get(row, k_availableSlots)
               IN  IF Truthy(v) /\ IsStr(v) /\ SomeBadPhase(StripBrackets(v.s))
                   THEN <<Error(i, k_availableSlots,
                                <<"AvailableSlots must contain valid phase numbers (>=1)">>,
                                Str(JsString(v)))>>
                   ELSE <<>>
          [] dataType = "tasks" ->
               LET v == Get(row, k_preferredPhases)
                   cleaned == Trim(StripBrackets(v.s))
                   halves == Split(cleaned, "-")
                   start == ParseInt(Trim(halves[1]))
                   end == ParseInt(Trim(halves[2]))
               IN  IF Truthy(v) /\ IsStr(v)
                   THEN IF Includes(cleaned, "-")
                        THEN IF \/ IsNaN(start) \/ IsNaN(end)
                                \/ start.n > end.n \/ start.n < 1
                             THEN <<Error(i, k_preferredPhases,
                                          <<"Invalid phase range format or values">>,
                                          Str(JsString(v)))>>
                             ELSE <<>>
                        ELSE IF SomeBadPhase(cleaned)
                             THEN <<Error(i, k_preferredPhases,
                                          <<"PreferredPhases must contain valid phase numbers (>=1)">>,
                                          Str(JsString(v)))>>
                             ELSE <<>>
                   ELSE <<>>
          [] OTHER -> <<>>)

\* a check of the priority the schema has clamped
ValidateCoercedPriorityLevels(data) ==
    ForEachRow(data, LAMBDA row, i :
        LET priority == Get(ClientSchema(row).value, k_priorityLevel)
        IN  IF IsNum(priority) /\ (priority.n < 1 \/ priority.n > 5)
            THEN <<Error(i, k_priorityLevel,
                         <<"PriorityLevel must be between 1 and 5">>,
                         Str(JsString(priority)))>>
            ELSE <<>>)

ValidatePriorityLevels(data) ==
    ForEachRow(data, LAMBDA row, i :
        LET v == Get(row, k_priorityLevel)
            priority == Number(v)
        IN  IF Present(v) /\ (IsNaN(priority) \/ priority.n < 1 \/ priority.n > 5)
            THEN <<Error(i, k_priorityLevel,
                         <<"PriorityLevel must be between 1 and 5">>, Str(JsString(v)))>>
            ELSE <<>>)

ValidateTaskDuration(data) ==
    ForEachRow(data, LAMBDA row, i :
        LET v == Get(row, k_duration)
            duration == Number(v)
        IN  IF Present(v) /\ (IsNaN(duration) \/ duration.n < 1)
            THEN <<Error(i, k_duration, <<"Duration must be >= 1 phase">>,
                         Str(JsString(v)))>>
            ELSE <<>>)

-----------------------------------------------------------------------------
(* FileParser.validateData *)

\* errors.length in the place of the set size: every error counted, the
\* file-level ones and the repeated rows included
CountedErrors(errors) == Len(errors)

\* new Set(dataRowErrors.map(error => error.row)).size
UniqueInvalidRows(errors) ==
    Cardinality({errors[j].row : j \in {i \in 1..Len(errors) : errors[i].row > 0}})

ValidationResult(isValid, errors, data, validData, total, invalid) ==
    [isValid |-> isValid,
     errors |-> errors,
     data |-> data,
     validData |-> validData,
     summary |-> [totalRows |-> total,
                  validRows |-> total - invalid,
                  invalidRows |-> invalid]]

\* validData after the forEach of step 3: result.data of every row that parsed
ValidDataOf(results) ==
    Flatten([i \in 1..Len(results) |->
        IF results[i].success THEN <<results[i].data>> ELSE <<>>])

\* an allData that keeps the coerced rows only
CoercedDataOf(data, results, now) ==
    Flatten([i \in 1..Len(data) |->
        IF results[i].success THEN <<ProcessedRow(data[i], results[i], i, now)>>
        ELSE <<>>])

\* allData after the forEach of step 3: one processedRow per row
AllDataOf(data, results, now) ==
    [i \in 1..Len(data) |-> ProcessedRow(data[i], results[i], i, now)]

\* errors, in the order the steps push them
ValidateDataErrors(data, dataType, results) ==
    ValidateMissingRequiredColumns(data, dataType)
    \o DuplicateIdErrors(data)
    \o ForEachRow(data, LAMBDA row, i : SchemaErrors(row, results[i], i))
    \o ValidateOutOfRangeValues(data, dataType)
    \o ValidateMalformedLists(data, dataType)
    \o (IF dataType = "clients" THEN ValidatePriorityLevels(data) ELSE <<>>)
    \o (IF dataType = "tasks" THEN ValidateTaskDuration(data) ELSE <<>>)

\* a result that is valid when no row carries an error
SummarizeRows(data, errors, allData, validData) ==
    ValidationResult(UniqueInvalidRows(errors) = 0, errors, allData, validData,
                     Len(data), UniqueInvalidRows(errors))

\* the returned object: isValid and the summary are computed from errors
Summarize(data, errors, allData, validData) ==
    ValidationResult(Len(errors) = 0, errors, allData, validData,
                     Len(data), UniqueInvalidRows(errors))

\* steps 1 to 5 over a non-empty file, results being the rows' safeParse
ValidateRows(data, dataType, now, results) ==
    Summarize(data, ValidateDataErrors(data, dataType, results),
              AllDataOf(data, results, now), ValidDataOf(results))

ValidateData(data, dataType, now) ==
    IF Len(data) = 0
    THEN ValidationResult(TRUE, <<>>, <<>>, <<>>, 0, 0)
    ELSE ValidateRows(data, dataType, now, ParseRows(data, dataType))

\* the result of parseFile when extractDataFromFile throws (an unreadable file,
\* an unsupported extension): no validData property
ParseFileFailed ==
    [data |-> <<>>,
     errors |-> <<Error(0, k_file, <<"File parsing failed">>, Null)>>,
     isValid |-> FALSE,
     summary |-> [totalRows |-> 0, validRows |-> 0, invalidRows |-> 0]]

\* the extensions extractDataFromFile reads
SupportedExtensions == {"csv", "xlsx", "xls"}

\* extractDataFromFile: the rows of the file, or a rejection when the
\* extension is not supported (throw new Error('Unsupported file type...')),
\* when the reader fails (reader.onerror, Papa's error callback) or when the
\* workbook cannot be read (the catch in reader.onload)
ExtractDataFromFile(file) ==
    IF file.extension \notin SupportedExtensions \/ ~file.readable
    THEN [thrown |-> TRUE, data |-> <<>>]
    ELSE [thrown |-> FALSE, data |-> file.rows]

\* an exception that leaves a call
Thrown == [t |-> "thrown"]

\* parseFile without its try/catch
ParseFileUncaught(file, dataType, now) ==
    IF ExtractDataFromFile(file).thrown THEN Thrown
    ELSE ValidateData(ExtractDataFromFile(file).data, dataType, now)

\* FileParser.parseFile
ParseFile(file, dataType, now) ==
    IF ExtractDataFromFile(file).thrown THEN ParseFileFailed
    ELSE ValidateData(ExtractDataFromFile(file).data, dataType, now)

-----------------------------------------------------------------------------
(* FileParser: the validators over the three stored collections *)

\* new Set(xs.map(x => String(x.id)).filter(id => id && id !== ''))
IdSet(entities) ==
    {JsString(Get(entities[i], k_id)) : i \in 1..Len(entities)} \ {<<>>}

\* the same ids in the iteration order of the Set: by first occurrence
IdOrder(entities) ==
    LET ids == [i \in 1..Len(entities) |-> JsString(Get(entities[i], k_id))]
    IN  Flatten([i \in 1..Len(ids) |->
            IF ids[i] # <<>> /\ \A j \in 1..(i - 1) : ids[j] # ids[i]
            THEN <<ids[i]>> ELSE <<>>])

\* task.dependencies.split(',').map(d => d.trim()).filter(d => d), taken only
\* when task.dependencies is a non-empty string
DependencyTokens(task) ==
    LET v == Get(task, k_dependencies)
    IN  IF Truthy(v) /\ IsStr(v)
        THEN SelectSeq([i \in 1..Len(Split(v.s, ",")) |-> Trim(Split(v.s, ",")[i])],
                       LAMBDA d : d # <<>>)
        ELSE <<>>

\* the error of one reference column of one task, if any
ReferenceError(task, rowNumber, key, ids, before, after) ==
    LET v == Get(task, key)
        ref == Trim(JsString(v))
    IN  IF Truthy(v) /\ ref # <<>> /\ ref \notin ids
        THEN <<Error(rowNumber, key, <<before>> \o ref \o <<after>>, Str(ref))>>
        ELSE <<>>

\* the errors of the dependencies column of one task
DependencyErrors(task, rowNumber, taskIds) ==
    LET deps == DependencyTokens(task)
    IN  Flatten([j \in 1..Len(deps) |->
            IF deps[j] \notin taskIds
            THEN <<Error(rowNumber, k_dependencies,
                         <<"Dependency task ID \"">> \o deps[j]
                             \o <<"\" not found in tasks data">>,
                         Str(deps[j]))>>
            ELSE <<>>])

ValidateCrossReferences(cs, ws, ts) ==
    ForEachRow(ts, LAMBDA task, rowNumber :
        ReferenceError(task, rowNumber, k_assignedTo, IdSet(ws),
                       "Worker ID \"", "\" not found in workers data")
        \o ReferenceError(task, rowNumber, k_clientId, IdSet(cs),
                          "Client ID \"", "\" not found in clients data")
        \o DependencyErrors(task, rowNumber, IdSet(ts)))

-----------------------------------------------------------------------------
(* FileParser.validateCircularDependencies *)

\* taskRowMap: the row number of the last task carrying the id
TaskRowMap(ts, taskId) ==
    LET rows == {i \in 1..Len(ts) : JsString(Get(ts[i], k_id)) = taskId}
    IN  IF rows = {} THEN 0 ELSE CHOOSE i \in rows : \A j \in rows : j <= i

\* dependencyGraph.get(taskId) || []: the tokens of the last task carrying the
\* id that are task ids; string dependencies only
DependencyGraph(ts, taskId) ==
    LET row == TaskRowMap(ts, taskId)
    IN  IF row = 0 THEN <<>>
        ELSE SelectSeq(DependencyTokens(ts[row]), LAMBDA d : d \in IdSet(ts))

\* the separator of the rendered chain (an arrow between blanks)
Arrow == <<" -> ">>

\* path.slice(cycleStart).concat([taskId]) with cycleStart = path.indexOf(taskId);
\* indexOf is -1 when taskId is not on the path, and slice(-1) is the last element
CycleTasks(path, taskId) ==
    LET at == {i \in 1..Len(path) : path[i] = taskId}
        from == IF at = {} THEN Len(path)
                ELSE CHOOSE i \in at : \A j \in at : i <= j
    IN  SubSeq(path, Max2(from, 1), Len(path)) \o <<taskId>>

CycleErrors(ts, cycleTasks) ==
    [j \in 1..Len(cycleTasks) |->
        Error(TaskRowMap(ts, cycleTasks[j]), k_dependencies,
              <<"Circular dependency detected: ">> \o Join(cycleTasks, Arrow),
              Str(Join(cycleTasks, Arrow)))]

\* the search state: visited, recursionStack, the errors pushed so far and the
\* ids whose dependency list the search has expanded, in order
SearchState(visited, stack, errors, expanded) ==
    [visited |-> visited, recursionStack |-> stack, errors |-> errors,
     expanded |-> expanded]

RECURSIVE HasCycle(_, _, _, _)
RECURSIVE HasCycleLoop(_, _, _, _, _)

\* hasCycle(taskId, path): [found, st]
HasCycle(ts, taskId, path, st) ==
    IF taskId \in st.recursionStack
    THEN [found |-> TRUE,
          st |-> [st EXCEPT !.errors = @ \o CycleErrors(ts, CycleTasks(path, taskId))]]
    ELSE IF taskId \in st.visited
    THEN [found |-> FALSE, st |-> st]
    ELSE LET entered == [st EXCEPT !.visited = @ \cup {taskId},
                                   !.recursionStack = @ \cup {taskId},
                                   !.expanded = Append(@, taskId)]
             r == HasCycleLoop(ts, DependencyGraph(ts, taskId), 1,
                               Append(path, taskId), entered)
         IN  IF r.found THEN r
             ELSE [found |-> FALSE,
                   st |-> [r.st EXCEPT !.recursionStack = @ \ {taskId}]]

\* for (const depId of dependencies) if (hasCycle(depId, [...path, taskId])) return true
HasCycleLoop(ts, dependencies, j, path, st) ==
    IF j > Len(dependencies) THEN [found |-> FALSE, st |-> st]
    ELSE LET r == HasCycle(ts, dependencies[j], path, st)
         IN  IF r.found THEN r
             ELSE HasCycleLoop(ts, dependencies, j + 1, path, r.st)

\* for (const taskId of taskIds) if (!visited.has(taskId)) hasCycle(taskId, [])
RECURSIVE CycleSearch(_, _, _, _)
CycleSearch(ts, roots, j, st) ==
    IF j > Len(roots) THEN st
    ELSE IF roots[j] \in st.visited THEN CycleSearch(ts, roots, j + 1, st)
    ELSE CycleSearch(ts, roots, j + 1, HasCycle(ts, roots[j], <<>>, st).st)

ValidateCircularDependencies(ts) ==
    CycleSearch(ts, IdOrder(ts), 1, SearchState({}, {}, <<>>, <<>>)).errors

-----------------------------------------------------------------------------
(* FileParser.validateSkillCoverage and validateWorkerCapacity *)

\* a skill compared as written
ExactSkill(skill) == skill

\* skill.toLowerCase().trim()
NormalizedSkill(skill) == Trim(ToLowerCase(skill))

ListOf(entity, key) ==
    LET v == Get(entity, key) IN IF IsArr(v) THEN v.a ELSE <<>>

AllWorkerSkills(ws) ==
    UNION {{NormalizedSkill(ListOf(ws[i], k_skills)[j]) :
               j \in 1..Len(ListOf(ws[i], k_skills))} : i \in 1..Len(ws)}

ValidateSkillCoverage(ws, ts) ==
    ForEachRow(ts, LAMBDA task, rowNumber :
        LET skills == ListOf(task, k_requiredSkills)
        IN  Flatten([j \in 1..Len(skills) |->
                IF NormalizedSkill(skills[j]) \notin AllWorkerSkills(ws)
                THEN <<Error(rowNumber, k_requiredSkills,
                             <<"Required skill \"">> \o skills[j]
                                 \o <<"\" not found in any worker">>,
                             Str(skills[j]))>>
                ELSE <<>>]))

\* Number(x) || dflt
NumberOr(v, dflt) ==
    LET n == Number(v) IN IF IsNaN(n) \/ n.n = 0 THEN dflt ELSE n.n

\* the tasks that add to phaseCapacity
CountedTask(task) ==
    /\ IsArr(Get(task, k_preferredPhases))
    /\ Truthy(Get(task, k_duration))

\* what one task adds to one phase of phaseCapacity (once per occurrence of the
\* phase in its preferredPhases); a counted task holds a numeric duration
TaskLoad(task, phase) ==
    IF CountedTask(task)
    THEN LET phases == ListOf(task, k_preferredPhases)
             times == Cardinality({j \in 1..Len(phases) : phases[j] = phase})
         IN  times * Number(Get(task, k_duration)).n
                   * NumberOr(Get(task, k_maxConcurrent), 1)
    ELSE 0

\* what one worker adds to one phase of workerCapacity
WorkerLoad(worker, phase) ==
    LET slots == ListOf(worker, k_availableSlots)
        times == Cardinality({j \in 1..Len(slots) : slots[j] = phase})
    IN  times * NumberOr(Get(worker, k_maxLoadPerPhase), 8)

\* phaseCapacity.get(phase) after the tasks.forEach
RECURSIVE RequiredCapacity(_, _)
RequiredCapacity(ts, phase) ==
    IF ts = <<>> THEN 0
    ELSE TaskLoad(Head(ts), phase) + RequiredCapacity(Tail(ts), phase)

\* a capacity that counts the workers of a phase, not their load
RECURSIVE AvailableWorkers(_, _)
AvailableWorkers(ws, phase) ==
    IF ws = <<>> THEN 0
    ELSE Cardinality({j \in 1..Len(ListOf(Head(ws), k_availableSlots)) :
                         ListOf(Head(ws), k_availableSlots)[j] = phase})
         + AvailableWorkers(Tail(ws), phase)

\* workerCapacity.get(phase) || 0 after the workers.forEach
RECURSIVE AvailableCapacity(_, _)
AvailableCapacity(ws, phase) ==
    IF ws = <<>> THEN 0
    ELSE WorkerLoad(Head(ws), phase) + AvailableCapacity(Tail(ws), phase)

\* the keys of phaseCapacity in insertion order
PhaseOrder(ts) ==
    LET all == Flatten([i \in 1..Len(ts) |->
                   IF CountedTask(ts[i]) THEN ListOf(ts[i], k_preferredPhases)
                   ELSE <<>>])
    IN  Flatten([i \in 1..Len(all) |->
            IF \A j \in 1..(i - 1) : all[j] # all[i] THEN <<all[i]>> ELSE <<>>])

ValidateWorkerCapacity(ws, ts) ==
    LET phases == PhaseOrder(ts)
    IN  Flatten([p \in 1..Len(phases) |->
            LET phase == phases[p]
                required == RequiredCapacity(ts, phase)
                available == AvailableCapacity(ws, phase)
            IN  IF required > available
                THEN <<Error(0, k_phaseCapacity,
                             <<"Phase ">> \o IntToString(phase)
                                 \o <<" is oversaturated: requires ">>
                                 \o IntToString(required) \o <<" slots, only ">>
                                 \o IntToString(available) \o <<" available">>,
                             Str(<<"Phase ">> \o IntToString(phase) \o <<": ">>
                                 \o IntToString(required) \o <<"/">>
                                 \o IntToString(available)))>>
                ELSE <<>>])

-----------------------------------------------------------------------------
(* RuleSchema of src/types/data-models.ts and the values of a rule.  A rule  *)
(* is an object whose property names are plain strings; a text that the code *)
(* does not look into is a string of one fragment.                           *)

Bool(b) == [t |-> "bool", b |-> b]

Obj(o) == [t |-> "obj", o |-> o]

Date(ms) == [t |-> "date", ms |-> ms]

RuleTypes == {"co-run", "slot-restriction", "load-limit", "phase-window",
              "pattern-match", "precedence-override"}

\* z.enum([...])
ZEnum(v, key, values) ==
    IF IsStr(v) /\ Len(v.s) = 1 /\ v.s[1] \in values THEN Field("valid", <<>>, v)
    ELSE Field("aborted", <<Issue(<<key>>, "Invalid enum value")>>, Undef)

\* z.number().default(dflt), z.boolean().default(dflt),
\* z.date().default(() => new Date()): the value must be of the type t
ZDefault(v, key, t, dflt) ==
    IF v.t = "undef" THEN Field("valid", <<>>, dflt)
    ELSE IF v.t = t THEN Field("valid", <<>>, v)
    ELSE Field("aborted", <<Issue(<<key>>, "Invalid type")>>, Undef)

\* z.record(z.any()): any object
ZRecordAny(v, key) ==
    IF v.t = "obj" THEN Field("valid", <<>>, v)
    ELSE Field("aborted", <<Issue(<<key>>, "Expected object")>>, Undef)

RuleShape == <<"id", "type", "name", "description", "priority", "isActive",
               "parameters", "createdAt", "updatedAt">>

RuleSchema(rule, now) ==
    ZObject(RuleShape,
            [k \in Range(RuleShape) |->
                CASE k = "id" -> ZString(Get(rule, k), k, "Rule ID is required")
                  [] k = "type" -> ZEnum(Get(rule, k), k, RuleTypes)
                  [] k = "name" -> ZString(Get(rule, k), k, "Rule name is required")
                  [] k = "description" -> ZOptionalString(Get(rule, k), k)
                  [] k = "priority" -> ZDefault(Get(rule, k), k, "num", Num(1))
                  [] k = "isActive" -> ZDefault(Get(rule, k), k, "bool", Bool(TRUE))
                  [] k = "parameters" -> ZRecordAny(Get(rule, k), k)
                  [] k \in {"createdAt", "updatedAt"} ->
                        ZDefault(Get(rule, k), k, "date", Date(now))])

\* the form of RuleBuilder as created and as reset by addRule
InitialRule ==
    [type |-> Str(<<"co-run">>),
     name |-> Str(<<>>),
     description |-> Str(<<>>),
     priority |-> Num(1),
     isActive |-> Bool(TRUE),
     parameters |-> Obj(<<>>)]

-----------------------------------------------------------------------------
(* AIService.suggestHeaderMapping of src/lib/ai-service.ts *)

\* s.replace(/[-_\s]/g, '')
RECURSIVE StripSeparators(_)
StripSeparators(s) ==
    IF s = <<>> THEN <<>>
    ELSE (IF Head(s) \in {"-", "_", " "} THEN <<>> ELSE <<Head(s)>>)
         \o StripSeparators(Tail(s))

\* header.toLowerCase().replace(/[-_\s]/g, '')
NormalizeHeader(h) == StripSeparators(ToLowerCase(h))

\* a.includes(b) for two strings
IncludesString(a, b) ==
    \E i \in 0..(Len(a) - Len(b)) : SubSeq(a, i + 1, i + Len(b)) = b

ClientHeaders ==
    <<
     [field |-> <<"i", "d">>,
      aliases |-> <<<<"c", "l", "i", "e", "n", "t", "_", "i", "d">>,
                    <<"c", "l", "i", "e", "n", "t", "i", "d">>,
                    <<"i", "d", "e", "n", "t", "i", "f", "i", "e", "r">>,
                    <<"c", "l", "i", "e", "n", "t", "-", "i", "d">>>>],
     [field |-> <<"n", "a", "m", "e">>,
      aliases |-> <<<<"c", "l", "i", "e", "n", "t", "_", "n", "a", "m", "e">>,
                    <<"c", "l", "i", "e", "n", "t", "n", "a", "m", "e">>,
                    <<"f", "u", "l", "l", "_", "n", "a", "m", "e">>,
                    <<"f", "u", "l", "l", "n", "a", "m", "e">>>>],
     [field |-> <<"e", "m", "a", "i", "l">>,
      aliases |-> <<<<"e", "m", "a", "i", "l", "_", "a", "d", "d", "r", "e", "s", "s">>,
                    <<"e", "m", "a", "i", "l", "a", "d", "d", "r", "e", "s", "s">>,
                    <<"e", "_", "m", "a", "i", "l">>,
                    <<"e", "-", "m", "a", "i", "l">>>>],
     [field |-> <<"p", "h", "o", "n", "e">>,
      aliases |-> <<<<"p", "h", "o", "n", "e", "_", "n", "u", "m", "b", "e", "r">>,
                    <<"p", "h", "o", "n", "e", "n", "u", "m", "b", "e", "r">>,
                    <<"t", "e", "l", "e", "p", "h", "o", "n", "e">>,
                    <<"m", "o", "b", "i", "l", "e">>>>],
     [field |-> <<"s", "t", "a", "t", "u", "s">>,
      aliases |-> <<<<"c", "l", "i", "e", "n", "t", "_", "s", "t", "a", "t", "u", "s">>,
                    <<"s", "t", "a", "t", "e">>,
                    <<"c", "o", "n", "d", "i", "t", "i", "o", "n">>>>],
     [field |-> <<"a", "d", "d", "r", "e", "s", "s">>,
      aliases |-> <<<<"l", "o", "c", "a", "t", "i", "o", "n">>,
                    <<"a", "d", "d", "r", "e", "s", "s", "_", "l", "i", "n", "e">>,
                    <<"f", "u", "l", "l", "_", "a", "d", "d", "r", "e", "s", "s">>>>],
     [field |-> <<"m", "e", "t", "a", "d", "a", "t", "a">>,
      aliases |-> <<<<"m", "e", "t", "a">>,
                    <<"a", "d", "d", "i", "t", "i", "o", "n", "a", "l", "_", "i", "n", "f", "o">>,
                    <<"c", "u", "s", "t", "o", "m", "_", "d", "a", "t", "a">>,
                    <<"e", "x", "t", "r", "a", "s">>>>]
    >>

WorkerHeaders ==
    <<
     [field |-> <<"i", "d">>,
      aliases |-> <<<<"w", "o", "r", "k", "e", "r", "_", "i", "d">>,
                    <<"w", "o", "r", "k", "e", "r", "i", "d">>,
                    <<"e", "m", "p", "l", "o", "y", "e", "e", "_", "i", "d">>,
                    <<"e", "m", "p", "_", "i", "d">>>>],
     [field |-> <<"n", "a", "m", "e">>,
      aliases |-> <<<<"w", "o", "r", "k", "e", "r", "_", "n", "a", "m", "e">>,
                    <<"w", "o", "r", "k", "e", "r", "n", "a", "m", "e">>,
                    <<"f", "u", "l", "l", "_", "n", "a", "m", "e">>,
                    <<"e", "m", "p", "l", "o", "y", "e", "e", "_", "n", "a", "m", "e">>>>],
     [field |-> <<"e", "m", "a", "i", "l">>,
      aliases |-> <<<<"e", "m", "a", "i", "l", "_", "a", "d", "d", "r", "e", "s", "s">>,
                    <<"w", "o", "r", "k", "_", "e", "m", "a", "i", "l">>,
                    <<"c", "o", "n", "t", "a", "c", "t", "_", "e", "m", "a", "i", "l">>>>],
     [field |-> <<"s", "k", "i", "l", "l", "s">>,
      aliases |-> <<<<"s", "k", "i", "l", "l", "_", "s", "e", "t">>,
                    <<"s", "k", "i", "l", "l", "s", "e", "t">>,
                    <<"a", "b", "i", "l", "i", "t", "i", "e", "s">>,
                    <<"c", "o", "m", "p", "e", "t", "e", "n", "c", "i", "e", "s">>>>],
     [field |-> <<"a", "v", "a", "i", "l", "a", "b", "i", "l", "i", "t", "y">>,
      aliases |-> <<<<"s", "c", "h", "e", "d", "u", "l", "e">>,
                    <<"w", "o", "r", "k", "i", "n", "g", "_", "h", "o", "u", "r", "s">>,
                    <<"a", "v", "a", "i", "l", "a", "b", "l", "e", "_", "t", "i", "m", "e">>>>],
     [field |-> <<"c", "a", "p", "a", "c", "i", "t", "y">>,
      aliases |-> <<<<"m", "a", "x", "_", "c", "a", "p", "a", "c", "i", "t", "y">>,
                    <<"w", "o", "r", "k", "l", "o", "a", "d">>,
                    <<"b", "a", "n", "d", "w", "i", "d", "t", "h">>>>],
     [field |-> <<"p", "r", "e", "f", "e", "r", "e", "n", "c", "e", "s">>,
      aliases |-> <<<<"p", "r", "e", "f", "s">>,
                    <<"s", "e", "t", "t", "i", "n", "g", "s">>,
                    <<"c", "u", "s", "t", "o", "m", "_", "p", "r", "e", "f", "e", "r", "e", "n", "c", "e", "s">>>>]
    >>

TaskHeaders ==
    <<
     [field |-> <<"i", "d">>,
      aliases |-> <<<<"t", "a", "s", "k", "_", "i", "d">>,
                    <<"t", "a", "s", "k", "i", "d">>,
                    <<"t", "i", "c", "k", "e", "t", "_", "i", "d">>,
                    <<"j", "o", "b", "_", "i", "d">>>>],
     [field |-> <<"t", "i", "t", "l", "e">>,
      aliases |-> <<<<"t", "a", "s", "k", "_", "t", "i", "t", "l", "e">>,
                    <<"n", "a", "m", "e">>,
                    <<"t", "a", "s", "k", "_", "n", "a", "m", "e">>,
                    <<"d", "e", "s", "c", "r", "i", "p", "t", "i", "o", "n">>>>],
     [field |-> <<"d", "e", "s", "c", "r", "i", "p", "t", "i", "o", "n">>,
      aliases |-> <<<<"d", "e", "t", "a", "i", "l", "s">>,
                    <<"t", "a", "s", "k", "_", "d", "e", "s", "c", "r", "i", "p", "t", "i", "o", "n">>,
                    <<"s", "u", "m", "m", "a", "r", "y">>>>],
     [field |-> <<"a", "s", "s", "i", "g", "n", "e", "d", "T", "o">>,
      aliases |-> <<<<"a", "s", "s", "i", "g", "n", "e", "d", "_", "t", "o">>,
                    <<"w", "o", "r", "k", "e", "r", "_", "i", "d">>,
                    <<"a", "s", "s", "i", "g", "n", "e", "e">>>>],
     [field |-> <<"s", "t", "a", "t", "u", "s">>,
      aliases |-> <<<<"t", "a", "s", "k", "_", "s", "t", "a", "t", "u", "s">>,
                    <<"s", "t", "a", "t", "e">>,
                    <<"p", "r", "o", "g", "r", "e", "s", "s">>>>],
     [field |-> <<"p", "r", "i", "o", "r", "i", "t", "y">>,
      aliases |-> <<<<"t", "a", "s", "k", "_", "p", "r", "i", "o", "r", "i", "t", "y">>,
                    <<"i", "m", "p", "o", "r", "t", "a", "n", "c", "e">>,
                    <<"u", "r", "g", "e", "n", "c", "y">>>>],
     [field |-> <<"d", "u", "e", "D", "a", "t", "e">>,
      aliases |-> <<<<"d", "u", "e", "_", "d", "a", "t", "e">>,
                    <<"d", "e", "a", "d", "l", "i", "n", "e">>,
                    <<"t", "a", "r", "g", "e", "t", "_", "d", "a", "t", "e">>>>],
     [field |-> <<"e", "s", "t", "i", "m", "a", "t", "e", "d", "H", "o", "u", "r", "s">>,
      aliases |-> <<<<"e", "s", "t", "i", "m", "a", "t", "e", "d", "_", "h", "o", "u", "r", "s">>,
                    <<"d", "u", "r", "a", "t", "i", "o", "n">>,
                    <<"e", "f", "f", "o", "r", "t">>>>],
     [field |-> <<"a", "t", "t", "r", "i", "b", "u", "t", "e", "s">>,
      aliases |-> <<<<"a", "t", "t", "r", "s">>,
                    <<"c", "u", "s", "t", "o", "m", "_", "a", "t", "t", "r", "i", "b", "u", "t", "e", "s">>,
                    <<"p", "r", "o", "p", "e", "r", "t", "i", "e", "s">>>>]
    >>

\* getExpectedHeaders(entityType)
GetExpectedHeaders(entityType) ==
    CASE entityType = "client" -> ClientHeaders
      [] entityType = "worker" -> WorkerHeaders
      [] entityType = "task" -> TaskHeaders

\* { field, confidence, reason }; the confidence in tenths (1.0 is 10)
HeaderMatch(field, confidence, reason) ==
    [field |-> field, confidence |-> confidence, reason |-> reason]

\* the first alias of the list that equals the header once normalized
MatchedAlias(headerLower, aliases) ==
    aliases[CHOOSE a \in 1..Len(aliases) :
                /\ NormalizeHeader(aliases[a]) = headerLower
                /\ \A b \in 1..(a - 1) : NormalizeHeader(aliases[b]) # headerLower]

\* the body of the for loop over expectedHeaders: what one expected header
\* returns for the header, Null when the loop goes on
ExpectedMatch(headerLower, expected) ==
    IF ToLowerCase(expected.field) = headerLower
    THEN HeaderMatch(expected.field, 10, <<"Exact match">>)
    ELSE IF \E a \in 1..Len(expected.aliases) :
                NormalizeHeader(expected.aliases[a]) = headerLower
    THEN HeaderMatch(expected.field, 9,
                     <<"Matched alias: ">> \o MatchedAlias(headerLower, expected.aliases))
    ELSE IF \/ IncludesString(headerLower, ToLowerCase(expected.field))
            \/ IncludesString(ToLowerCase(expected.field), headerLower)
    THEN HeaderMatch(expected.field, 7, <<"Partial match">>)
    ELSE Null

\* the expected headers are tried in order; the first that returns wins
RECURSIVE FirstMatch(_, _, _)
FirstMatch(headerLower, expectedHeaders, i) ==
    IF i > Len(expectedHeaders) THEN Null
    ELSE IF ExpectedMatch(headerLower, expectedHeaders[i]) # Null
    THEN ExpectedMatch(headerLower, expectedHeaders[i])
    ELSE FirstMatch(headerLower, expectedHeaders, i + 1)

FindBestHeaderMatch(header, expectedHeaders) ==
    FirstMatch(NormalizeHeader(header), expectedHeaders, 1)

\* if (suggestion) mappings.push({ original, suggested, confidence, reason })
PushedMapping(header, suggestion) ==
    IF suggestion = Null THEN <<>>
    ELSE <<[original |-> header, suggested |-> suggestion.field,
            confidence |-> suggestion.confidence, reason |-> suggestion.reason]>>

SuggestHeaderMapping(headers, entityType) ==
    Flatten([i \in 1..Len(headers) |->
        PushedMapping(headers[i],
                      FindBestHeaderMatch(headers[i], GetExpectedHeaders(entityType)))])

-----------------------------------------------------------------------------
(* The rows handed to FileParser.validateData: every file of at most MaxRows *)
(* rows over a few rows per entity type.  Each cell is a string.             *)

\* a well-formed client
ClientRow1 ==
    (k_id :> Str(<<"C", "1">>)
     @@ k_name :> Str(<<"A">>)
     @@ k_priorityLevel :> Str(<<"3">>))

\* the same id again, priority out of range
ClientRow2 ==
    (k_id :> Str(<<"C", "1">>)
     @@ k_name :> Str(<<"B">>)
     @@ k_priorityLevel :> Str(<<"9">>))

\* the id with a leading blank, no name, a priority that is no number
ClientRow3 ==
    (k_id :> Str(<<" ", "C", "1">>)
     @@ k_name :> Str(<<>>)
     @@ k_priorityLevel :> Str(<<"x">>))

\* the id under its legacy header, no priority cell
ClientRow4 ==
    (k_ClientID :> Str(<<"C", "2">>)
     @@ k_name :> Str(<<"B">>))

\* an empty id
ClientRow5 ==
    (k_id :> Str(<<>>)
     @@ k_name :> Str(<<"C">>)
     @@ k_priorityLevel :> Str(<<"0">>)
     @@ k_requestedTaskIDs :> Str(<<"T", "1", ",", " ", "T", "9">>))

\* the id under the header Client_ID
ClientRow6 ==
    (k_Client_ID :> Str(<<"C", "3">>)
     @@ k_ClientName :> Str(<<"D">>)
     @@ k_PriorityLevel :> Str(<<"2">>))

\* a row of a spreadsheet: the priority is a number, below the range
ClientRow7 ==
    (k_id :> Str(<<"C", "4">>)
     @@ k_name :> Str(<<"E">>)
     @@ k_priorityLevel :> Num(0))

\* a well-formed worker
WorkerRow1 ==
    (k_id :> Str(<<"W", "1">>)
     @@ k_name :> Str(<<"A">>)
     @@ k_skills :> Str(<<"R", "e", "a", "c", "t", ",", " ", "n", "o", "d", "e">>)
     @@ k_availableSlots :> Str(<<"[", "1", ",", "2", "]">>)
     @@ k_maxLoadPerPhase :> Str(<<"8">>))

\* the same id again, a malformed slot list, a load below 1
WorkerRow2 ==
    (k_id :> Str(<<"W", "1">>)
     @@ k_name :> Str(<<"B">>)
     @@ k_skills :> Str(<<>>)
     @@ k_availableSlots :> Str(<<"1", ",", "x">>)
     @@ k_maxLoadPerPhase :> Str(<<"0">>))

\* no name, a slot below 1
WorkerRow3 ==
    (k_id :> Str(<<"W", "2">>)
     @@ k_availableSlots :> Str(<<"0">>))

\* the id under its legacy header, a load above 168
WorkerRow4 ==
    (k_WorkerID :> Str(<<"W", "1">>)
     @@ k_name :> Str(<<"C">>)
     @@ k_maxLoadPerPhase :> Str(<<"2", "0", "0">>))

\* a well-formed task
TaskRow1 ==
    (k_id :> Str(<<"T", "1">>)
     @@ k_title :> Str(<<"a">>)
     @@ k_duration :> Str(<<"2">>)
     @@ k_requiredSkills :> Str(<<"r", "e", "a", "c", "t">>)
     @@ k_preferredPhases :> Str(<<"1", "-", "2">>)
     @@ k_dependencies :> Str(<<"T", "2">>))

\* a duration below 1, a reversed range, more actual than estimated hours
TaskRow2 ==
    (k_id :> Str(<<"T", "2">>)
     @@ k_title :> Str(<<"b">>)
     @@ k_duration :> Str(<<"0">>)
     @@ k_preferredPhases :> Str(<<"3", "-", "1">>)
     @@ k_dependencies :> Str(<<"T", "1", ",", " ", "T", "9">>)
     @@ k_estimatedHours :> Str(<<"5">>)
     @@ k_actualHours :> Str(<<"9">>))

\* the same id as the first, an empty title, a malformed phase list
TaskRow3 ==
    (k_id :> Str(<<"T", "1">>)
     @@ k_title :> Str(<<>>)
     @@ k_preferredPhases :> Str(<<"2", ",", "x">>))

\* the id under its legacy header, negative hours
TaskRow4 ==
    (k_TaskID :> Str(<<"T", "2">>)
     @@ k_title :> Str(<<"c">>)
     @@ k_duration :> Str(<<"x">>)
     @@ k_actualHours :> Str(<<"-", "1">>))

\* a task with references
TaskRow5 ==
    (k_id :> Str(<<"T", "3">>)
     @@ k_title :> Str(<<"d">>)
     @@ k_assignedTo :> Str(<<"W", "1">>)
     @@ k_clientId :> Str(<<"C", "1">>)
     @@ k_maxConcurrent :> Str(<<"2">>))

\* a row of a spreadsheet: numbers in the cells, a duration below 1, more
\* actual hours than the estimated 0
TaskRow6 ==
    (k_id :> Str(<<"T", "4">>)
     @@ k_title :> Str(<<"e">>)
     @@ k_duration :> Num(-1)
     @@ k_estimatedHours :> Num(0)
     @@ k_actualHours :> Num(5))

RowChoices(dataType) ==
    CASE dataType = "clients" -> {ClientRow1, ClientRow2, ClientRow3, ClientRow4, ClientRow5,
                               ClientRow6, ClientRow7}
      [] dataType = "workers" -> {WorkerRow1, WorkerRow2, WorkerRow3, WorkerRow4}
      [] dataType = "tasks" -> {TaskRow1, TaskRow2, TaskRow3, TaskRow4, TaskRow5, TaskRow6}

DataTypes == {"clients", "workers", "tasks"}

\* the files of at most n rows over a set of rows
FilesOver(rows, n) == UNION {[1..m -> rows] : m \in 0..n}

\* the values Date.now() takes during a call
Clock == {1, 2}

-----------------------------------------------------------------------------
(* The files uploaded into the store *)

\* T1, which depends on T2
TaskA ==
    (k_id :> Str(<<"T", "1">>)
     @@ k_title :> Str(<<"a">>)
     @@ k_duration :> Str(<<"2">>)
     @@ k_requiredSkills :> Str(<<"r", "e", "a", "c", "t">>)
     @@ k_preferredPhases :> Str(<<"1", "-", "2">>)
     @@ k_dependencies :> Str(<<"T", "2">>)
     @@ k_assignedTo :> Str(<<"W", "1">>))

\* T2, which depends on T3 and on a task that does not exist
TaskB ==
    (k_id :> Str(<<"T", "2">>)
     @@ k_title :> Str(<<"b">>)
     @@ k_duration :> Str(<<"5">>)
     @@ k_maxConcurrent :> Str(<<"2">>)
     @@ k_preferredPhases :> Str(<<"1">>)
     @@ k_dependencies :> Str(<<"T", "3", ",", " ", "T", "9">>)
     @@ k_assignedTo :> Str(<<" ", "W", "2", " ">>)
     @@ k_clientId :> Str(<<"C", "9">>))

\* T3, which depends on T1
TaskC ==
    (k_id :> Str(<<"T", "3">>)
     @@ k_title :> Str(<<"c">>)
     @@ k_requiredSkills :> Str(<<"R", "e", "a", "c", "t", ",", " ", "G", "o">>)
     @@ k_dependencies :> Str(<<"T", "1">>)
     @@ k_clientId :> Str(<<"C", "1">>))

\* T1 without a title: the row fails coercion and is stored as uploaded
RawTaskA ==
    (k_id :> Str(<<"T", "1">>)
     @@ k_title :> Str(<<>>)
     @@ k_dependencies :> Str(<<"T", "2">>)
     @@ k_assignedTo :> Str(<<"W", "9">>))

\* T2 without a title
RawTaskB ==
    (k_id :> Str(<<"T", "2">>)
     @@ k_title :> Str(<<>>)
     @@ k_dependencies :> Str(<<"T", "3", ",", " ", "T", "9">>))

\* T3 without a title
RawTaskC ==
    (k_id :> Str(<<"T", "3">>)
     @@ k_title :> Str(<<>>)
     @@ k_dependencies :> Str(<<"T", "1">>))

\* T2 without a title, depending on T1
RawTaskD ==
    (k_id :> Str(<<"T", "2">>)
     @@ k_title :> Str(<<>>)
     @@ k_dependencies :> Str(<<"T", "1">>))

\* a client under the documented headers and under the required ones, asking
\* for a task that exists and for one that does not
StoreClient ==
    (k_id :> Str(<<"C", "1">>)
     @@ k_ClientID :> Str(<<"C", "1">>)
     @@ k_name :> Str(<<"A">>)
     @@ k_ClientName :> Str(<<"A">>)
     @@ k_priorityLevel :> Str(<<"3">>)
     @@ k_requestedTaskIDs :> Str(<<"T", "1", ",", " ", "T", "9">>))

StoreClientFiles == {<<StoreClient>>}

\* a worker of a spreadsheet, whose cells reach the parser untrimmed
PaddedWorker ==
    (k_id :> Str(<<" ", "W", "2", " ">>)
     @@ k_name :> Str(<<"D">>)
     @@ k_availableSlots :> Str(<<"1">>))

StoreWorkerFiles == {<<WorkerRow1, WorkerRow3>>, <<PaddedWorker>>}

StoreTaskFiles ==
    {<<TaskA, TaskB, TaskC>>,           \* T1 -> T2 -> T3 -> T1, all coerced
     <<RawTaskA, RawTaskB, RawTaskC>>,  \* the same cycle in rows stored as uploaded
     <<RawTaskA, RawTaskD, RawTaskC>>,  \* T1 -> T2 -> T1, and T3 -> T1
     <<TaskA>>,
     <<TaskC, TaskC>>}                  \* one id twice

\* the data types for which an unreadable file is uploaded
UnreadableTypes == {"clients"}

\* the cells a user edit of a task row overwrites
TaskEdits == {(k_assignedTo :> Str(<<"W", "1">>)),
              (k_dependencies :> Str(<<>>))}

-----------------------------------------------------------------------------
(* The zustand store of src/store/data-store.ts *)

StoreInit ==
    /\ clients = <<>>
    /\ workers = <<>>
    /\ tasks = <<>>
    /\ clientValidationResults = Null
    /\ workerValidationResults = Null
    /\ taskValidationResults = Null
    /\ lastOp = "init"
    /\ runs = 0
    /\ edits = 0
    /\ input = Null
    /\ output = Null
    /\ rules = <<>>
    /\ currentRule = InitialRule
    /\ editingIndex = Null
    /\ search = Null
    /\ grid = Null

\* setClients(clients, validation)
SetClients(entities, validation) ==
    /\ clients' = entities
    /\ clientValidationResults' = validation
    /\ lastOp' = "setClients"
    /\ UNCHANGED <<workers, tasks, workerValidationResults,
                   taskValidationResults, runs, edits, parserVars, ruleVars, viewVars>>

SetWorkers(entities, validation) ==
    /\ workers' = entities
    /\ workerValidationResults' = validation
    /\ lastOp' = "setWorkers"
    /\ UNCHANGED <<clients, tasks, clientValidationResults,
                   taskValidationResults, runs, edits, parserVars, ruleVars, viewVars>>

SetTasks(entities, validation) ==
    /\ tasks' = entities
    /\ taskValidationResults' = validation
    /\ lastOp' = "setTasks"
    /\ runs' = 0
    /\ edits' = 0
    /\ UNCHANGED <<clients, workers, clientValidationResults,
                   workerValidationResults, parserVars, ruleVars, viewVars>>

StoreFiles(dataType) ==
    CASE dataType = "clients" -> StoreClientFiles
      [] dataType = "workers" -> StoreWorkerFiles
      [] dataType = "tasks" -> StoreTaskFiles

\* an upload hands the parser's result to the setter of its data type:
\* setTasks(result.data, result)
Upload(dataType, validation) ==
    \/ dataType = "clients" /\ SetClients(validation.data, validation)
    \/ dataType = "workers" /\ SetWorkers(validation.data, validation)
    \/ dataType = "tasks" /\ SetTasks(validation.data, validation)

\* what parseFile returns for the files that are read
ParsedFiles ==
    UNION {{[dataType |-> dataType,
             validation |-> ValidateData(file, dataType, now)] :
               file \in StoreFiles(dataType), now \in Clock} :
           dataType \in DataTypes}

\* parseFile of a file that is read, then the setter
UploadRead ==
    \E parsed \in ParsedFiles : Upload(parsed.dataType, parsed.validation)

\* parseFile of a file that is not, then the setter
UploadUnreadable ==
    \E dataType \in UnreadableTypes : Upload(dataType, ParseFileFailed)

UploadFile == UploadRead \/ UploadUnreadable

\* state.tasks.map(task => task.id === id ? { ...task, ...updates } : task)
UpdateEntities(entities, id, updates) ==
    [i \in 1..Len(entities) |->
        IF Get(entities[i], k_id) = id THEN Spread(entities[i], updates)
        ELSE entities[i]]

\* DataWorkspace.handleTaskUpdate(rowIndex, updates) -> updateTask(task.id,
\* updates); the grid hands over the whole edited row
HandleTaskUpdate ==
    \E rowIndex \in 1..Len(tasks), edit \in TaskEdits :
        /\ edits < MaxEdits
        /\ edits' = edits + 1
        /\ tasks' = UpdateEntities(tasks, Get(tasks[rowIndex], k_id),
                                   Spread(tasks[rowIndex], edit))
        /\ lastOp' = "updateTask"
        /\ UNCHANGED <<clients, workers, clientValidationResults,
                       workerValidationResults, taskValidationResults, runs,
                       parserVars, ruleVars, viewVars>>

ClearData ==
    /\ clients' = <<>>
    /\ workers' = <<>>
    /\ tasks' = <<>>
    /\ clientValidationResults' = Null
    /\ workerValidationResults' = Null
    /\ taskValidationResults' = Null
    /\ lastOp' = "clearData"
    /\ runs' = 0
    /\ edits' = 0
    /\ UNCHANGED <<parserVars, ruleVars, viewVars>>

\* allNewErrors of the store's validateCrossReferences
AllNewErrors(cs, ws, ts) ==
    ValidateCrossReferences(cs, ws, ts)
    \o ValidateCircularDependencies(ts)
    \o ValidateSkillCoverage(ws, ts)
    \o ValidateWorkerCapacity(ws, ts)

\* taskValidationResults?.errors || []
ExistingErrors(validation) == IF validation = Null THEN <<>> ELSE validation.errors

\* taskValidationResults?.validData || []
ExistingValidData(validation) ==
    IF validation = Null \/ "validData" \notin DOMAIN validation THEN <<>>
    ELSE validation.validData

\* a merge that keeps the new errors only
ReplacedErrors(validation, allNewErrors) == allNewErrors

\* [...existingErrors, ...allNewErrors]
AllErrors(validation, allNewErrors) == ExistingErrors(validation) \o allNewErrors

\* updatedValidation
UpdatedValidation(validation, ts, allNewErrors) ==
    LET allErrors == AllErrors(validation, allNewErrors)
    IN  [isValid |-> Len(allErrors) = 0,
         errors |-> allErrors,
         data |-> ts,
         validData |-> ExistingValidData(validation),
         summary |-> [totalRows |-> Len(ts),
                      validRows |-> Len(ts) - Len(allErrors),
                      invalidRows |-> Len(allErrors)]]

\* if (allNewErrors.length > 0) set({ taskValidationResults: updatedValidation })
Revalidated(validation, ts, allNewErrors) ==
    IF Len(allNewErrors) > 0 THEN UpdatedValidation(validation, ts, allNewErrors)
    ELSE validation

\* useDataStore.validateCrossReferences
StoreValidateCrossReferences ==
    /\ runs < MaxRuns
    /\ taskValidationResults' =
           Revalidated(taskValidationResults, tasks,
                       AllNewErrors(clients, workers, tasks))
    /\ runs' = runs + 1
    /\ lastOp' = "validateCrossReferences"
    /\ UNCHANGED <<clients, workers, tasks, clientValidationResults,
                   workerValidationResults, edits, parserVars, ruleVars, viewVars>>

Next ==
    \/ UploadFile
    \/ HandleTaskUpdate
    \/ ClearData
    \/ StoreValidateCrossReferences

Spec == StoreInit /\ [][Next]_vars

-----------------------------------------------------------------------------
(* FileParser.validateData called on a file *)

ParserInputs ==
    UNION {{[dataType |-> d, rows |-> f] : f \in FilesOver(RowChoices(d), MaxRows)} :
              d \in DataTypes}

ParserInit ==
    /\ input \in ParserInputs
    /\ output = Null
    /\ clients = <<>>
    /\ workers = <<>>
    /\ tasks = <<>>
    /\ clientValidationResults = Null
    /\ workerValidationResults = Null
    /\ taskValidationResults = Null
    /\ lastOp = "init"
    /\ runs = 0
    /\ edits = 0
    /\ rules = <<>>
    /\ currentRule = InitialRule
    /\ editingIndex = Null
    /\ search = Null
    /\ grid = Null

ValidateDataCall ==
    /\ output = Null
    /\ \E now \in Clock : output' = ValidateData(input.rows, input.dataType, now)
    /\ lastOp' = "validateData"
    /\ UNCHANGED <<storeVars, input, ruleVars, viewVars>>

ParserNext == ValidateDataCall

ParserSpec == ParserInit /\ [][ParserNext]_vars

-----------------------------------------------------------------------------
(* AIService.suggestHeaderMapping called on the headers of a file *)

\* the headers of the uploaded files: canonical names, aliases, other spellings
UploadedHeaders ==
    {<<"i", "d">>,
     <<"C", "l", "i", "e", "n", "t", "_", "I", "D">>,
     <<"c", "l", "i", "e", "n", "t", "-", "i", "d">>,
     <<"N", "a", "m", "e">>,
     <<"d", "e", "s", "c", "r", "i", "p", "t", "i", "o", "n">>,
     <<"w", "o", "r", "k", "e", "r", "_", "i", "d">>,
     <<"t", "a", "s", "k", " ", "n", "a", "m", "e">>,
     <<"t", "i", "t", "l", "e">>,
     <<"s", "t", "a", "t", "e">>,
     <<"E", "-", "M", "a", "i", "l">>,
     <<"s", "k", "i", "l", "l", "s">>,
     <<"d", "u", "r", "a", "t", "i", "o", "n">>,
     <<"d", "e", "a", "d", "l", "i", "n", "e">>,
     <<"a", "s", "s", "i", "g", "n", "e", "d", " ", "t", "o">>,
     <<"w", "o", "r", "k", "l", "o", "a", "d">>,
     <<"m", "e", "t", "a">>,
     <<"x", "y", "z">>,
     <<>>,
     <<"p", "a", "i", "d">>,
     <<"r", "e", "n", "a", "m", "e">>}

EntityTypes == {"client", "worker", "task"}

HeaderInputs ==
    {[entityType |-> e, headers |-> hs] :
        e \in EntityTypes,
        hs \in UNION {[1..m -> UploadedHeaders] : m \in 1..MaxHeaders}}

HeaderInit ==
    /\ input \in HeaderInputs
    /\ output = Null
    /\ clients = <<>>
    /\ workers = <<>>
    /\ tasks = <<>>
    /\ clientValidationResults = Null
    /\ workerValidationResults = Null
    /\ taskValidationResults = Null
    /\ lastOp = "init"
    /\ runs = 0
    /\ edits = 0
    /\ rules = <<>>
    /\ currentRule = InitialRule
    /\ editingIndex = Null
    /\ search = Null
    /\ grid = Null

SuggestHeaderMappingCall ==
    /\ lastOp = "init"
    /\ output' = SuggestHeaderMapping(input.headers, input.entityType)
    /\ lastOp' = "suggestHeaderMapping"
    /\ UNCHANGED <<storeVars, input, ruleVars, viewVars>>

HeaderNext == SuggestHeaderMappingCall

HeaderSpec == HeaderInit /\ [][HeaderNext]_vars

-----------------------------------------------------------------------------
(* RuleBuilder of src/components/rules/rule-builder.tsx *)

\* the rule types chosen in the select of the form
RuleTypeChoices == {"co-run", "slot-restriction"}

\* the names typed into the form
RuleNames == {Str(<<>>), Str(<<"r">>)}

\* the inputs of renderParametersForm for a rule type and the values typed
\* into them (a number input hands over parseInt of its text)
ParameterInputs(type) ==
    CASE type = "co-run" -> {<<"taskIds", Str(<<"T1,T2">>)>>}
      [] type = "slot-restriction" ->
            {<<"groupTag", Str(<<"g">>)>>,
             <<"minCommonSlots", Num(0)>>, <<"minCommonSlots", Num(2)>>}
      [] type = "load-limit" ->
            {<<"workerGroup", Str(<<"g">>)>>,
             <<"maxSlotsPerPhase", Num(0)>>, <<"maxSlotsPerPhase", Num(2)>>}
      [] OTHER -> {}

RuleBuilderInit ==
    /\ rules = <<>>
    /\ currentRule = InitialRule
    /\ editingIndex = Null
    /\ search = Null
    /\ grid = Null
    /\ clients = <<>>
    /\ workers = <<>>
    /\ tasks = <<>>
    /\ clientValidationResults = Null
    /\ workerValidationResults = Null
    /\ taskValidationResults = Null
    /\ lastOp = "init"
    /\ runs = 0
    /\ edits = 0
    /\ input = Null
    /\ output = Null

\* onValueChange of the rule type: the parameters are reset
SetRuleType ==
    \E type \in RuleTypeChoices :
        /\ currentRule' = Spread(currentRule, [type |-> Str(<<type>>),
                                               parameters |-> Obj(<<>>)])
        /\ lastOp' = "setRuleType"
        /\ UNCHANGED <<storeVars, parserVars, rules, editingIndex, viewVars>>

\* onChange of the rule name
SetRuleName ==
    \E name \in RuleNames :
        /\ currentRule' = Spread(currentRule, [name |-> name])
        /\ lastOp' = "setRuleName"
        /\ UNCHANGED <<storeVars, parserVars, rules, editingIndex, viewVars>>

\* the texts typed into the priority input
PriorityTexts == {<<>>, <<"1">>, <<"2">>}

\* onChange of the priority input: parseInt(e.target.value) || 1
SetRulePriority ==
    \E text \in PriorityTexts :
        /\ currentRule' = Spread(currentRule, [priority |-> Num(NumberOr(ParseInt(text), 1))])
        /\ lastOp' = "setRulePriority"
        /\ UNCHANGED <<storeVars, parserVars, rules, editingIndex, viewVars>>

\* onChange of an input of the parameters form:
\* parameters: { ...currentRule.parameters, [key]: value }
SetRuleParameter ==
    \E parameter \in ParameterInputs(currentRule.type.s[1]) :
        /\ currentRule' =
               Spread(currentRule,
                      [parameters |-> Obj(With(currentRule.parameters.o,
                                               parameter[1], parameter[2]))])
        /\ lastOp' = "setRuleParameter"
        /\ UNCHANGED <<storeVars, parserVars, rules, editingIndex, viewVars>>

\* { ...currentRule, id: `rule-${Date.now()}`, createdAt, updatedAt }
RuleWithId(rule, now) ==
    Spread(rule, [id |-> Str(<<"rule-">> \o IntToString(now)),
                  createdAt |-> Date(now),
                  updatedAt |-> Date(now)])

\* updatedRules[index] = rule on a copy of the array (index from 0); an
\* index past the end leaves holes
AssignAt(array, index, rule) ==
    [i \in 1..Max2(Len(array), index + 1) |->
        IF i = index + 1 THEN rule
        ELSE IF i <= Len(array) THEN array[i] ELSE Undef]

\* the state addRule leaves, parsed being RuleSchema.parse(ruleWithId): the
\* parse throws unless the status is valid, and the catch changes nothing
AddParsed(parsed) ==
    IF parsed.status = "valid"
    THEN /\ IF editingIndex # Null
            THEN /\ rules' = AssignAt(rules, editingIndex.n, parsed.value)
                 /\ editingIndex' = Null
            ELSE /\ rules' = Append(rules, parsed.value)
                 /\ UNCHANGED editingIndex
         /\ currentRule' = InitialRule
    ELSE UNCHANGED <<rules, currentRule, editingIndex>>

AddRule ==
    \E now \in Clock :
        /\ editingIndex = Null => Len(rules) < MaxRules
        /\ editingIndex # Null => editingIndex.n < MaxRules
        /\ AddParsed(RuleSchema(RuleWithId(currentRule, now), now))
        /\ lastOp' = "addRule"
        /\ UNCHANGED <<storeVars, parserVars, viewVars>>

EditRule ==
    \E index \in 0..(Len(rules) - 1) :
        /\ rules[index + 1] # Undef
        /\ currentRule' = rules[index + 1]
        /\ editingIndex' = Num(index)
        /\ lastOp' = "editRule"
        /\ UNCHANGED <<storeVars, parserVars, rules, viewVars>>

\* rules.filter((_, i) => i !== index)
DeleteRule ==
    \E index \in 0..(Len(rules) - 1) :
        /\ rules' = SubSeq(rules, 1, index) \o SubSeq(rules, index + 2, Len(rules))
        /\ lastOp' = "deleteRule"
        /\ UNCHANGED <<storeVars, parserVars, currentRule, editingIndex, viewVars>>

RuleBuilderNext ==
    \/ SetRuleType
    \/ SetRuleName
    \/ SetRulePriority
    \/ SetRuleParameter
    \/ AddRule
    \/ EditRule
    \/ DeleteRule

RuleBuilderSpec == RuleBuilderInit /\ [][RuleBuilderNext]_vars

-----------------------------------------------------------------------------
(* RuleEngine of src/components/rules/rule-engine.tsx: its own rules (held   *)
(* in rules) and its form newRule (held in currentRule).                     *)

\* the initial newRule; name, field, condition and action are not set
InitialNewRule ==
    [dataType |-> Str(<<"clients">>), ruleType |-> Str(<<"validation">>),
     name |-> Undef, description |-> Undef,
     field |-> Undef, condition |-> Undef, action |-> Undef,
     priority |-> Num(1), isActive |-> Bool(TRUE)]

RuleEngineInit ==
    /\ rules = <<>>
    /\ currentRule = InitialNewRule
    /\ editingIndex = Null
    /\ search = Null
    /\ grid = Null
    /\ clients = <<>>
    /\ workers = <<>>
    /\ tasks = <<>>
    /\ clientValidationResults = Null
    /\ workerValidationResults = Null
    /\ taskValidationResults = Null
    /\ lastOp = "init"
    /\ runs = 0
    /\ edits = 0
    /\ input = Null
    /\ output = Null

\* onChange of the name input, onValueChange of the field, condition and
\* action selects
SetNewRuleText ==
    \E key \in {"name", "field", "condition", "action"} :
        /\ currentRule' = [currentRule EXCEPT ![key] = Str(<<"x">>)]
        /\ lastOp' = "setNewRule"
        /\ UNCHANGED <<storeVars, parserVars, rules, editingIndex, viewVars>>

\* onChange of the priority input: parseInt(e.target.value) || 1
SetNewRulePriority ==
    \E text \in PriorityTexts :
        /\ currentRule' = [currentRule EXCEPT
                              !.priority = Num(NumberOr(ParseInt(text), 1))]
        /\ lastOp' = "setNewRulePriority"
        /\ UNCHANGED <<storeVars, parserVars, rules, editingIndex, viewVars>>

\* rs.sort((a, b) => a.priority - b.priority): the sort is stable, rules of
\* one priority keep their order
RECURSIVE SortByPriority(_)
SortByPriority(rs) ==
    IF rs = <<>> THEN <<>>
    ELSE LET least == CHOOSE i \in 1..Len(rs) :
                         \A j \in 1..Len(rs) :
                             \/ rs[i].priority.n < rs[j].priority.n
                             \/ rs[i].priority.n = rs[j].priority.n /\ i <= j
         IN  <<rs[least]>>
             \o SortByPriority(SubSeq(rs, 1, least - 1) \o SubSeq(rs, least + 1, Len(rs)))

\* handleAddRule: the rule is added when name, field, condition and action
\* are set, and the form is reset; otherwise nothing changes
HandleAddRule ==
    \E now \in Clock :
        /\ Len(rules) < MaxRules
        /\ IF /\ Truthy(currentRule.name) /\ Truthy(currentRule.field)
              /\ Truthy(currentRule.condition) /\ Truthy(currentRule.action)
           THEN /\ rules' = SortByPriority(Append(rules,
                                [id |-> Str(IntToString(now)),
                                 name |-> currentRule.name,
                                 description |-> Or(currentRule.description, Str(<<>>)),
                                 dataType |-> currentRule.dataType,
                                 ruleType |-> currentRule.ruleType,
                                 field |-> currentRule.field,
                                 condition |-> currentRule.condition,
                                 action |-> currentRule.action,
                                 priority |-> Num(NumberOr(currentRule.priority, 1)),
                                 isActive |-> currentRule.isActive,
                                 createdAt |-> Date(now)]))
                /\ currentRule' = InitialNewRule
           ELSE UNCHANGED <<rules, currentRule>>
        /\ lastOp' = "handleAddRule"
        /\ UNCHANGED <<storeVars, parserVars, editingIndex, viewVars>>

\* handleDeleteRule(id): prev.filter(rule => rule.id !== id)
HandleDeleteRule ==
    \E n \in 1..Len(rules) :
        /\ rules' = SelectSeq(rules, LAMBDA rule : rule.id # rules[n].id)
        /\ lastOp' = "handleDeleteRule"
        /\ UNCHANGED <<storeVars, parserVars, currentRule, editingIndex, viewVars>>

\* handleToggleRule(id): isActive of the rules with that id is negated
HandleToggleRule ==
    \E n \in 1..Len(rules) :
        /\ rules' = [i \in 1..Len(rules) |->
                        IF rules[i].id = rules[n].id
                        THEN [rules[i] EXCEPT !.isActive = Bool(~rules[i].isActive.b)]
                        ELSE rules[i]]
        /\ lastOp' = "handleToggleRule"
        /\ UNCHANGED <<storeVars, parserVars, currentRule, editingIndex, viewVars>>

RuleEngineNext ==
    \/ SetNewRuleText
    \/ SetNewRulePriority
    \/ HandleAddRule
    \/ HandleDeleteRule
    \/ HandleToggleRule

RuleEngineSpec == RuleEngineInit /\ [][RuleEngineNext]_vars

-----------------------------------------------------------------------------
(* DataGrid of src/components/ui/data-grid.tsx, as DataWorkspace mounts it   *)
(* for the tasks: data = tasks, validationErrors =                           *)
(* taskValidationResults?.errors || [], onUpdate = handleTaskUpdate.         *)
(* Row indices are those of the code, counted from 0.                        *)

\* the columns of taskColumns that the rows of the model have a value for
TaskColumnKeys == {k_id, k_title, k_assignedTo, k_estimatedHours}

\* globalFilterFn 'includesString' on one row: some column's value, as a
\* lower-case string, includes the lower-case filter; an empty filter is
\* no filter
PassesFilter(row, globalFilter) ==
    \/ globalFilter = <<>>
    \/ \E k \in TaskColumnKeys :
           /\ Present(Get(row, k))
           /\ IncludesString(ToLowerCase(JsString(Get(row, k))),
                             ToLowerCase(globalFilter))

\* getSortedRowModel on the id column: a stable sort of the row indices
RECURSIVE SortRows(_, _, _)
SortRows(indices, data, desc) ==
    IF indices = <<>> THEN <<>>
    ELSE LET before(a, b) ==
                 IF desc THEN Greater(Get(data[a + 1], k_id), Get(data[b + 1], k_id))
                 ELSE Greater(Get(data[b + 1], k_id), Get(data[a + 1], k_id))
             first == CHOOSE i \in 1..Len(indices) :
                          \A j \in 1..Len(indices) :
                              \/ before(indices[i], indices[j])
                              \/ ~before(indices[j], indices[i]) /\ i <= j
         IN  <<indices[first]>>
             \o SortRows(SubSeq(indices, 1, first - 1)
                         \o SubSeq(indices, first + 1, Len(indices)), data, desc)

\* table.getRowModel().rows, as the row.index of each displayed row
RowModel(data, globalFilter, sorting) ==
    IF sorting = Null
    THEN SelectSeq([i \in 1..Len(data) |-> i - 1],
                   LAMBDA r : PassesFilter(data[r + 1], globalFilter))
    ELSE SortRows(SelectSeq([i \in 1..Len(data) |-> i - 1],
                            LAMBDA r : PassesFilter(data[r + 1], globalFilter)),
                  data, sorting.desc)

\* the rows on display
Displayed == RowModel(tasks, grid.globalFilter, grid.sorting)

\* taskValidationResults?.errors || []
GridValidationErrors == ExistingErrors(taskValidationResults)

\* getRowErrors(rowIndex)
GetRowErrors(validationErrors, rowIndex) ==
    SelectSeq(validationErrors, LAMBDA error : error.row = rowIndex + 1)

\* the files whose upload fills the grid
GridFiles == {<<TaskRow1, TaskRow6>>, <<TaskRow6, TaskRow1>>,
              <<TaskRow1, TaskRow2, TaskRow5>>}

\* the texts typed into the search box
FilterTexts == {<<>>, <<"T", "4">>, <<"t", "1">>, <<"d">>}

\* the texts typed into a title cell
CellTexts == {<<"z">>}

\* the grid mounted after the upload of a task file
GridInit ==
    /\ \E file \in GridFiles, now \in Clock :
           /\ tasks = ValidateData(file, "tasks", now).data
           /\ taskValidationResults = ValidateData(file, "tasks", now)
    /\ grid = [globalFilter |-> <<>>, sorting |-> Null,
               editingRows |-> {}, editingData |-> <<>>]
    /\ clients = <<>>
    /\ workers = <<>>
    /\ clientValidationResults = Null
    /\ workerValidationResults = Null
    /\ lastOp = "init"
    /\ runs = 0
    /\ edits = 0
    /\ input = Null
    /\ output = Null
    /\ rules = <<>>
    /\ currentRule = InitialRule
    /\ editingIndex = Null
    /\ search = Null

\* onChange of the search box: setGlobalFilter(e.target.value)
SetGlobalFilter ==
    \E text \in FilterTexts :
        /\ grid' = [grid EXCEPT !.globalFilter = text]
        /\ lastOp' = "setGlobalFilter"
        /\ UNCHANGED <<storeVars, parserVars, ruleVars, search>>

\* header.column.getToggleSortingHandler() of the id column: ascending,
\* descending, unsorted
ToggleSorting ==
    /\ grid' = [grid EXCEPT !.sorting =
                   IF @ = Null THEN [desc |-> FALSE]
                   ELSE IF ~@.desc THEN [desc |-> TRUE]
                   ELSE Null]
    /\ lastOp' = "toggleSorting"
    /\ UNCHANGED <<storeVars, parserVars, ruleVars, search>>

\* prev without the key rowIndex
Without(editingData, rowIndex) ==
    [r \in DOMAIN editingData \ {rowIndex} |-> editingData[r]]

\* startEditing(index), from the edit button of the displayed row index
StartEditing ==
    \E index \in 0..(Len(Displayed) - 1) :
        /\ index \notin grid.editingRows
        /\ grid' = [grid EXCEPT
                       !.editingRows = @ \cup {index},
                       !.editingData = (index :> tasks[index + 1]) @@ @]
        /\ lastOp' = "startEditing"
        /\ UNCHANGED <<storeVars, parserVars, ruleVars, search>>

\* updateEditingData(props.row.index, 'title', e.target.value), from the
\* title cell of a displayed row whose row.index is in editingRows
UpdateEditingData ==
    \E rowIndex \in Range(Displayed) \cap grid.editingRows, text \in CellTexts :
        /\ grid' = [grid EXCEPT
                       !.editingData =
                           (rowIndex :> With(IF rowIndex \in DOMAIN @ THEN @[rowIndex]
                                             ELSE <<>>,
                                             k_title, Str(text))) @@ @]
        /\ lastOp' = "updateEditingData"
        /\ UNCHANGED <<storeVars, parserVars, ruleVars, search>>

\* cancelEditing(index), from the cancel button of the displayed row index
CancelEditing ==
    \E index \in (0..(Len(Displayed) - 1)) \cap grid.editingRows :
        /\ grid' = [grid EXCEPT
                       !.editingRows = @ \ {index},
                       !.editingData = Without(@, index)]
        /\ lastOp' = "cancelEditing"
        /\ UNCHANGED <<storeVars, parserVars, ruleVars, search>>

\* saveEditing(index), from the save button of the displayed row index:
\* onUpdate(index, editingData[index]) is handleTaskUpdate, which calls
\* updateTask(tasks[index].id, updates); then cancelEditing(index)
SaveEditing ==
    \E index \in (0..(Len(Displayed) - 1)) \cap grid.editingRows :
        /\ tasks' = IF index \in DOMAIN grid.editingData /\ index < Len(tasks)
                    THEN UpdateEntities(tasks, Get(tasks[index + 1], k_id),
                                        grid.editingData[index])
                    ELSE tasks
        /\ grid' = [grid EXCEPT
                       !.editingRows = @ \ {index},
                       !.editingData = Without(@, index)]
        /\ lastOp' = "saveEditing"
        /\ UNCHANGED <<clients, workers, clientValidationResults,
                       workerValidationResults, taskValidationResults, runs,
                       edits, parserVars, ruleVars, search>>

GridNext ==
    \/ SetGlobalFilter
    \/ ToggleSorting
    \/ StartEditing
    \/ UpdateEditingData
    \/ CancelEditing
    \/ SaveEditing

GridSpec == GridInit /\ [][GridNext]_vars

-----------------------------------------------------------------------------
(* The transform of TaskSchema.preferredPhases, applied to every text of at  *)
(* most MaxChars characters.                                                 *)

PhaseChars == {"1", "3", "4", ",", "-", "x"}

PhaseTexts == UNION {[1..n -> PhaseChars] : n \in 0..MaxChars}

PhasesInit ==
    /\ input \in PhaseTexts
    /\ output = Null
    /\ clients = <<>>
    /\ workers = <<>>
    /\ tasks = <<>>
    /\ clientValidationResults = Null
    /\ workerValidationResults = Null
    /\ taskValidationResults = Null
    /\ lastOp = "init"
    /\ runs = 0
    /\ edits = 0
    /\ rules = <<>>
    /\ currentRule = InitialRule
    /\ editingIndex = Null
    /\ search = Null
    /\ grid = Null

PreferredPhasesCall ==
    /\ lastOp = "init"
    /\ output' = Arr(PreferredPhasesTransform(input))
    /\ lastOp' = "preferredPhases"
    /\ UNCHANGED <<storeVars, input, ruleVars, viewVars>>

PhasesNext == PreferredPhasesCall

PhasesSpec == PhasesInit /\ [][PhasesNext]_vars

-----------------------------------------------------------------------------
(* FileParser.parseFile called on a file: its extension, whether it can be   *)
(* read, and its rows.                                                       *)

Extensions == {"csv", "xlsx", "xls", "txt"}

FileInputs ==
    UNION {{[dataType |-> d,
             file |-> [extension |-> e, readable |-> r, rows |-> f]] :
               e \in Extensions, r \in BOOLEAN,
               f \in FilesOver(RowChoices(d), MaxFileRows)} : d \in DataTypes}

FileInit ==
    /\ input \in FileInputs
    /\ output = Null
    /\ clients = <<>>
    /\ workers = <<>>
    /\ tasks = <<>>
    /\ clientValidationResults = Null
    /\ workerValidationResults = Null
    /\ taskValidationResults = Null
    /\ lastOp = "init"
    /\ runs = 0
    /\ edits = 0
    /\ rules = <<>>
    /\ currentRule = InitialRule
    /\ editingIndex = Null
    /\ search = Null
    /\ grid = Null

ParseFileCall ==
    /\ lastOp = "init"
    /\ \E now \in Clock : output' = ParseFile(input.file, input.dataType, now)
    /\ lastOp' = "parseFile"
    /\ UNCHANGED <<storeVars, input, ruleVars, viewVars>>

FileNext == ParseFileCall

FileSpec == FileInit /\ [][FileNext]_vars

-----------------------------------------------------------------------------
(* FileParser.validateCircularDependencies called on a collection of raw     *)
(* tasks T1..Tn, each with a dependencies text naming up to two of them.     *)

TaskIdOf(i) == <<"T", Digits[i + 1]>>

\* the dependencies texts over n tasks: none, one id, two ids that follow
\* one another
DependencyChoices(n) ==
    {<<>>} \cup {TaskIdOf(a) : a \in 1..n}
           \cup {TaskIdOf(a) \o <<",">> \o TaskIdOf(a + 1) : a \in 1..(n - 1)}

CycleInputs ==
    UNION {{[tasks |-> [i \in 1..n |->
                          (k_id :> Str(TaskIdOf(i)) @@ k_dependencies :> Str(deps[i]))]] :
               deps \in [1..n -> DependencyChoices(n)]} : n \in 0..MaxTasks}

CycleInit ==
    /\ input \in CycleInputs
    /\ output = Null
    /\ clients = <<>>
    /\ workers = <<>>
    /\ tasks = <<>>
    /\ clientValidationResults = Null
    /\ workerValidationResults = Null
    /\ taskValidationResults = Null
    /\ lastOp = "init"
    /\ runs = 0
    /\ edits = 0
    /\ rules = <<>>
    /\ currentRule = InitialRule
    /\ editingIndex = Null
    /\ search = Null
    /\ grid = Null

\* the call; output keeps the whole state of the search, errors included
ValidateCircularDependenciesCall ==
    /\ lastOp = "init"
    /\ output' = CycleSearch(input.tasks, IdOrder(input.tasks), 1,
                             SearchState({}, {}, <<>>, <<>>))
    /\ lastOp' = "validateCircularDependencies"
    /\ UNCHANGED <<storeVars, input, ruleVars, viewVars>>

CycleNext == ValidateCircularDependenciesCall

CycleSpec == CycleInit /\ [][CycleNext]_vars

-----------------------------------------------------------------------------
(* FileParser.validateCircularDependencies run statement by statement: the   *)
(* loop over taskIds and the calls of hasCycle, one frame per call.          *)
(* search.pc is the position: "roots" in the loop over taskIds, "enter" at   *)
(* the head of a call of hasCycle, "loop" in its loop over the dependencies, *)
(* "return" when a call hands back its value, "done" after the loop.         *)

\* a search that keeps no record of the tasks it has entered
NeverVisited(taskId, visited) == FALSE

\* if (visited.has(taskId)) return false
AlreadyVisited(taskId, visited) == taskId \in visited

\* the dependencies texts of task i of n: none, itself, the next task (the
\* first after the last), the next two
RingChoices(n, i) ==
    {<<>>, TaskIdOf(i), TaskIdOf((i % n) + 1),
     TaskIdOf((i % n) + 1) \o <<",">> \o TaskIdOf(((i + 1) % n) + 1)}

StepInputs ==
    UNION {{[tasks |-> [i \in 1..n |->
                          (k_id :> Str(TaskIdOf(i)) @@ k_dependencies :> Str(deps[i]))]] :
               deps \in {d \in [1..n -> UNION {RingChoices(n, i) : i \in 1..n}] :
                            \A i \in 1..n : d[i] \in RingChoices(n, i)}} : n \in 0..MaxTasks}

CycleStepInit ==
    /\ input \in StepInputs
    /\ search = [pc |-> "roots", root |-> 1, frames |-> <<>>,
                 call |-> Null, returned |-> FALSE,
                 visited |-> {}, recursionStack |-> {},
                 errors |-> <<>>, expanded |-> <<>>]
    /\ output = Null
    /\ clients = <<>>
    /\ workers = <<>>
    /\ tasks = <<>>
    /\ clientValidationResults = Null
    /\ workerValidationResults = Null
    /\ taskValidationResults = Null
    /\ lastOp = "init"
    /\ runs = 0
    /\ edits = 0
    /\ rules = <<>>
    /\ currentRule = InitialRule
    /\ editingIndex = Null
    /\ grid = Null

\* for (const taskId of taskIds) { if (!visited.has(taskId)) hasCycle(taskId, []) }
\* and, after the last id, return errors
NextRoot ==
    /\ search # Null /\ search.pc = "roots"
    /\ LET roots == IdOrder(input.tasks)
       IN  IF search.root > Len(roots)
           THEN /\ search' = [search EXCEPT !.pc = "done"]
                /\ output' = search.errors
                /\ lastOp' = "return errors"
           ELSE /\ search' =
                     IF roots[search.root] \in search.visited
                     THEN [search EXCEPT !.root = @ + 1]
                     ELSE [search EXCEPT !.root = @ + 1, !.pc = "enter",
                                         !.call = [taskId |-> roots[search.root],
                                                   path |-> <<>>]]
                /\ lastOp' = "taskIds"
                /\ UNCHANGED output
    /\ UNCHANGED <<storeVars, input, ruleVars, grid>>

\* the head of hasCycle(taskId, path): the cycle found on the recursion
\* stack, the task already visited, or the task entered
EnterHasCycle ==
    /\ search # Null /\ search.pc = "enter"
    /\ LET taskId == search.call.taskId
           path == search.call.path
       IN  search' =
               IF taskId \in search.recursionStack
               THEN [search EXCEPT
                        !.errors = @ \o CycleErrors(input.tasks, CycleTasks(path, taskId)),
                        !.pc = "return", !.returned = TRUE, !.call = Null]
               ELSE IF AlreadyVisited(taskId, search.visited)
               THEN [search EXCEPT !.pc = "return", !.returned = FALSE, !.call = Null]
               ELSE [search EXCEPT
                        !.visited = @ \cup {taskId},
                        !.recursionStack = @ \cup {taskId},
                        !.expanded = Append(@, taskId),
                        !.frames = Append(@, [taskId |-> taskId, path |-> path, j |-> 1]),
                        !.pc = "loop", !.call = Null]
    /\ lastOp' = "hasCycle"
    /\ UNCHANGED <<storeVars, parserVars, ruleVars, grid>>

\* for (const depId of dependencies) hasCycle(depId, [...path, taskId]); after
\* the last one recursionStack.delete(taskId); return false
NextDependency ==
    /\ search # Null /\ search.pc = "loop"
    /\ LET top == search.frames[Len(search.frames)]
           dependencies == DependencyGraph(input.tasks, top.taskId)
       IN  search' =
               IF top.j > Len(dependencies)
               THEN [search EXCEPT
                        !.recursionStack = @ \ {top.taskId},
                        !.frames = SubSeq(@, 1, Len(@) - 1),
                        !.pc = "return", !.returned = FALSE]
               ELSE [search EXCEPT
                        !.frames[Len(search.frames)].j = @ + 1,
                        !.pc = "enter",
                        !.call = [taskId |-> dependencies[top.j],
                                  path |-> Append(top.path, top.taskId)]]
    /\ lastOp' = "dependencies"
    /\ UNCHANGED <<storeVars, parserVars, ruleVars, grid>>

\* the caller takes the value: if (hasCycle(...)) return true, else the next
\* dependency; the loop over taskIds ignores the value
ReturnHasCycle ==
    /\ search # Null /\ search.pc = "return"
    /\ search' =
           IF search.frames = <<>> THEN [search EXCEPT !.pc = "roots"]
           ELSE IF search.returned
           THEN [search EXCEPT !.frames = SubSeq(@, 1, Len(@) - 1)]
           ELSE [search EXCEPT !.pc = "loop"]
    /\ lastOp' = "return"
    /\ UNCHANGED <<storeVars, parserVars, ruleVars, grid>>

CycleStepNext == NextRoot \/ EnterHasCycle \/ NextDependency \/ ReturnHasCycle

CycleStepSpec == CycleStepInit /\ [][CycleStepNext]_vars

\* the function runs on: JavaScript executes the next statement
CycleStepLive == CycleStepSpec /\ WF_vars(CycleStepNext)

-----------------------------------------------------------------------------
(* Properties of FileParser.validateData, over the behaviours of ParserSpec *)

\* C1: in every result of validateData, summary.invalidRows is the number of
\* distinct row numbers above 0 found in errors (file-level errors of row 0
\* are not counted, a row with several errors counts once), and
\* validRows + invalidRows = totalRows = the number of input rows.
C1_SummaryCountsRows ==
    output # Null =>
        /\ output.summary.invalidRows =
               Cardinality({output.errors[n].row : n \in 1..Len(output.errors)} \ {0})
        /\ output.summary.validRows + output.summary.invalidRows
               = output.summary.totalRows
        /\ output.summary.totalRows = Len(input.rows)

\* a result with a file-level error and with a row that carries two errors
C1_Witness ==
    /\ output # Null
    /\ \E n \in 1..Len(output.errors) : output.errors[n].row = 0
    /\ \E n, m \in 1..Len(output.errors) :
           n # m /\ output.errors[n].row = output.errors[m].row
                 /\ output.errors[n].row > 0

\* C8: for every id found in k >= 2 input rows validateData reports exactly k
\* duplicate-ID errors, one for each row with that id, each message listing
\* the k row numbers; an id found once and a row with an empty id get none.
C8_DuplicateIds ==
    output # Null =>
        \A i \in 1..Len(input.rows) :
            LET id == RowId(input.rows[i])
                same == {j \in 1..Len(input.rows) : RowId(input.rows[j]) = id}
                listed == SelectSeq([j \in 1..Len(input.rows) |-> j],
                                    LAMBDA j : j \in same)
                found == {n \in 1..Len(output.errors) :
                             /\ output.errors[n].row = i
                             /\ output.errors[n].message[1] = "Duplicate ID \""}
            IN  IF id # <<>> /\ Cardinality(same) >= 2
                THEN /\ Cardinality(found) = 1
                     /\ \A n \in found :
                            /\ output.errors[n].field = k_id
                            /\ output.errors[n].message =
                                  <<"Duplicate ID \"">> \o id
                                  \o <<"\" found in rows: ">>
                                  \o Join([j \in 1..Len(listed) |->
                                              IntToString(listed[j])], <<", ">>)
                ELSE found = {}

\* a file with one id in several rows and with a row that has no id
C8_Witness ==
    /\ output # Null
    /\ \E i \in 1..Len(input.rows) : RowId(input.rows[i]) = <<>>
    /\ \E i, j \in 1..Len(input.rows) :
           i # j /\ RowId(input.rows[i]) = RowId(input.rows[j])
                 /\ RowId(input.rows[i]) # <<>>
    /\ \E n \in 1..Len(output.errors) :
           output.errors[n].message[1] = "Duplicate ID \""

\* C9: validData holds rows without errors only: the row of data whose row
\* number appears in errors is not an element of validData.
C9_ValidDataWithoutErrors ==
    output # Null =>
        \A n \in 1..Len(output.errors) :
            output.errors[n].row > 0 =>
                \A m \in 1..Len(output.validData) :
                    output.validData[m] # output.data[output.errors[n].row]

\* C10: data has one element for each input row, in input order; a row that
\* coerces is in validData, and a row that does not is kept in data with its
\* original values and a non-empty id, with at least one error of its row
\* number.
C10_CoercionTotal ==
    output # Null =>
        /\ Len(output.data) = Len(input.rows)
        /\ \A i \in 1..Len(input.rows) :
               LET row == input.rows[i]
                   result == SafeParse(GetSchema(input.dataType, row))
                   kept == output.data[i]
               IN  IF result.success
                   THEN /\ kept = result.data
                        /\ \E m \in 1..Len(output.validData) :
                               output.validData[m] = result.data
                   ELSE /\ DOMAIN kept = DOMAIN row \cup {k_id}
                        /\ \A k \in DOMAIN row \ {k_id} : kept[k] = row[k]
                        /\ Truthy(Get(row, k_id)) => kept[k_id] = row[k_id]
                        /\ IsStr(kept[k_id]) /\ kept[k_id].s # <<>>
                        /\ \E n \in 1..Len(output.errors) : output.errors[n].row = i

\* a file with a row that coerces and a row without id that does not
C10_Witness ==
    /\ output # Null
    /\ Len(output.validData) > 0
    /\ \E i \in 1..Len(input.rows) :
           /\ ~Truthy(Get(input.rows[i], k_id))
           /\ output.data[i][k_id].s[1] = "temp-"

\* C14: for a clients file whose id column has the header Client_ID,
\* validateData (through validateMissingRequiredColumns) reports no missing
\* column error for the required column ClientID.
C14_AliasTolerant ==
    (/\ output # Null
     /\ input.dataType = "clients"
     /\ Len(input.rows) > 0
     /\ k_Client_ID \in DOMAIN input.rows[1])
    => \A n \in 1..Len(output.errors) :
           ~(/\ output.errors[n].row = 0
             /\ output.errors[n].field = k_ClientID
             /\ output.errors[n].message[1] = "Missing required column: ")

\* C15: for a file of one well-formed row under the documented sample headers
\* (clients id, name, priorityLevel; workers id, name, skills, availableSlots,
\* maxLoadPerPhase; tasks id, title, duration, requiredSkills, ...)
\* validateData reports no missing column error, and isValid is true.
C15_DocumentedHeaders ==
    (/\ output # Null
     /\ \/ input.dataType = "clients" /\ input.rows = <<ClientRow1>>
        \/ input.dataType = "workers" /\ input.rows = <<WorkerRow1>>
        \/ input.dataType = "tasks" /\ input.rows = <<TaskRow1>>)
    => /\ \A n \in 1..Len(output.errors) :
              output.errors[n].message[1] # "Missing required column: "
       /\ output.isValid

\* the cell is a number or the text of one
NumericCell(v) == /\ IsNum(v) \/ (IsStr(v) /\ Trim(v.s) # <<>>)
                  /\ IsNum(Number(v))

\* C19: for every client row whose raw priorityLevel is a number outside 1..5
\* the priorityLevel the schema coerces it to lies in 1..5 (and is the one of
\* the row in data when the row coerces) and errors holds an error of field
\* priorityLevel for that row; likewise a task row whose raw duration is a
\* number below 1 is coerced to a duration of at least 1 and has an error of
\* field duration.
C19_RawValueInspected ==
    output # Null =>
        \A i \in 1..Len(input.rows) :
            LET row == input.rows[i]
                Flagged(key) == \E n \in 1..Len(output.errors) :
                                    /\ output.errors[n].row = i
                                    /\ output.errors[n].field = key
            IN  /\ (/\ input.dataType = "clients"
                    /\ NumericCell(Get(row, k_priorityLevel))
                    /\ Number(Get(row, k_priorityLevel)).n \notin 1..5)
                   => /\ Get(ClientSchema(row).value, k_priorityLevel).n \in 1..5
                      /\ SafeParse(ClientSchema(row)).success
                            => output.data[i][k_priorityLevel]
                                  = Get(ClientSchema(row).value, k_priorityLevel)
                      /\ Flagged(k_priorityLevel)
                /\ (/\ input.dataType = "tasks"
                    /\ NumericCell(Get(row, k_duration))
                    /\ Number(Get(row, k_duration)).n < 1)
                   => /\ Get(TaskObject(row).value, k_duration).n >= 1
                      /\ SafeParse(TaskSchema(row)).success
                            => output.data[i][k_duration]
                                  = Get(TaskObject(row).value, k_duration)
                      /\ Flagged(k_duration)

\* a client row with the number 0 as priority: it coerces, data holds it with
\* priority 1, and errors holds a priorityLevel error for it
C19_Witness ==
    /\ output # Null
    /\ input.dataType = "clients"
    /\ \E i \in 1..Len(input.rows) :
           /\ Get(input.rows[i], k_priorityLevel) = Num(0)
           /\ output.data[i][k_priorityLevel] = Num(1)
           /\ \E m \in 1..Len(output.validData) : output.validData[m] = output.data[i]
           /\ \E n \in 1..Len(output.errors) :
                  /\ output.errors[n].row = i
                  /\ output.errors[n].field = k_priorityLevel

\* C20: for every task row whose estimatedHours and actualHours are both
\* numbers (0 included), errors holds 'Actual hours cannot exceed estimated
\* hours' for that row exactly when actualHours > estimatedHours.
C20_ActualWithinEstimated ==
    output # Null /\ input.dataType = "tasks" =>
        \A i \in 1..Len(input.rows) :
            LET estimated == Get(input.rows[i], k_estimatedHours)
                actual == Get(input.rows[i], k_actualHours)
            IN  (NumericCell(estimated) /\ NumericCell(actual)) =>
                    ((\E n \in 1..Len(output.errors) :
                         /\ output.errors[n].row = i
                         /\ output.errors[n].message
                               = <<"Actual hours cannot exceed estimated hours">>)
                     <=> Number(actual).n > Number(estimated).n)

-----------------------------------------------------------------------------
(* Properties of the store and of its validators, over the behaviours of Spec *)

\* f[1] + ... + f[n]
RECURSIVE SumTo(_, _)
SumTo(f, n) == IF n = 0 THEN 0 ELSE f[n] + SumTo(f, n - 1)

\* the number of times x occurs in the list held under key by an entity (a
\* row stored as uploaded holds text there, not a list)
Occurrences(entity, key, x) ==
    IF IsArr(Get(entity, key))
    THEN Cardinality({j \in 1..Len(Get(entity, key).a) : Get(entity, key).a[j] = x})
    ELSE 0

\* the elements of the list held under key by an entity
Elements(entity, key) ==
    IF IsArr(Get(entity, key)) THEN Range(Get(entity, key).a) ELSE {}

\* C2: in every state of the store the summary of taskValidationResults has
\* invalidRows <= totalRows and validRows >= 0, and invalidRows is the number
\* of distinct row numbers above 0 in errors, not the number of errors.
C2_StoreSummary ==
    taskValidationResults # Null =>
        /\ taskValidationResults.summary.invalidRows
               <= taskValidationResults.summary.totalRows
        /\ taskValidationResults.summary.validRows >= 0
        /\ taskValidationResults.summary.invalidRows =
               Cardinality({taskValidationResults.errors[n].row :
                               n \in 1..Len(taskValidationResults.errors)} \ {0})

\* C3: a second validateCrossReferences right after a first, the three
\* collections unchanged, leaves taskValidationResults.errors the list it was
\* after the first.
C3_Idempotent ==
    [][(lastOp = "validateCrossReferences" /\ lastOp' = "validateCrossReferences")
          => ExistingErrors(taskValidationResults')
                = ExistingErrors(taskValidationResults)]_vars

\* C4: validateCrossReferences keeps the errors stored before the call, in
\* their order, and appends the errors it finds after them; when it finds
\* none the stored validation result is unchanged.
C4_Additive ==
    [][lastOp' = "validateCrossReferences" =>
          /\ Len(ExistingErrors(taskValidationResults'))
                 >= Len(ExistingErrors(taskValidationResults))
          /\ SubSeq(ExistingErrors(taskValidationResults'), 1,
                    Len(ExistingErrors(taskValidationResults)))
                 = ExistingErrors(taskValidationResults)
          /\ SubSeq(ExistingErrors(taskValidationResults'),
                    Len(ExistingErrors(taskValidationResults)) + 1,
                    Len(ExistingErrors(taskValidationResults')))
                 = AllNewErrors(clients, workers, tasks)
          /\ (Len(ExistingErrors(taskValidationResults'))
                  = Len(ExistingErrors(taskValidationResults))
               => taskValidationResults' = taskValidationResults)]_vars

\* after a call: an error of the upload followed by a reference error
C4_Witness ==
    /\ lastOp = "validateCrossReferences"
    /\ taskValidationResults # Null
    /\ \E n, m \in 1..Len(taskValidationResults.errors) :
           /\ n < m
           /\ taskValidationResults.errors[n].field = k_title
           /\ taskValidationResults.errors[m].field = k_assignedTo
           /\ taskValidationResults.errors[m].message[1] = "Worker ID \""

\* C5: when three tasks depend on one another in a cycle, the errors of
\* validateCircularDependencies hold, for each of the three, an error of
\* field dependencies at its row, whose message lists the three ids in path
\* order, joined by arrows and closed by the first.
C5_CycleReported ==
    LET Id(i) == JsString(Get(tasks[i], k_id))
        DependsOn(i, j) ==
            LET v == Get(tasks[i], k_dependencies)
            IN  \/ IsArr(v) /\ \E n \in 1..Len(v.a) : v.a[n] = Id(j)
                \/ IsStr(v) /\ \E n \in 1..Len(DependencyTokens(tasks[i])) :
                                  DependencyTokens(tasks[i])[n] = Id(j)
        errors == ValidateCircularDependencies(tasks)
    IN  \A a, b, c \in 1..Len(tasks) :
            (/\ Cardinality({Id(a), Id(b), Id(c)}) = 3
             /\ DependsOn(a, b) /\ DependsOn(b, c) /\ DependsOn(c, a))
            => \E n \in 1..Len(errors) :
                   /\ errors[n].row = a
                   /\ errors[n].field = k_dependencies
                   /\ \E first \in {a, b, c} :
                          errors[n].message
                            = <<"Circular dependency detected: ">>
                              \o Join(IF first = a THEN <<Id(a), Id(b), Id(c), Id(a)>>
                                      ELSE IF first = b
                                      THEN <<Id(b), Id(c), Id(a), Id(b)>>
                                      ELSE <<Id(c), Id(a), Id(b), Id(c)>>, Arrow)

\* C6: for a task held as coerced, with dependencies the list of ids,
\* validateCrossReferences reports one error of field dependencies for each
\* element of the list that is no task id, and none for the others.
C6_CoercedDependencies ==
    LET errors == ValidateCrossReferences(clients, workers, tasks)
    IN  \A i \in 1..Len(tasks) :
            IsArr(Get(tasks[i], k_dependencies)) =>
                LET deps == Get(tasks[i], k_dependencies).a
                IN  \A d \in Range(deps) :
                        Cardinality({n \in 1..Len(errors) :
                                        /\ errors[n].row = i
                                        /\ errors[n].field = k_dependencies
                                        /\ errors[n].value = Str(d)})
                          = IF d \in IdSet(tasks) THEN 0
                            ELSE Cardinality({j \in 1..Len(deps) : deps[j] = d})

\* C7: a task with a non-empty assignedTo has exactly one error of field
\* assignedTo at its row when that value is no id of a worker, and none when
\* it is; likewise clientId and the ids of the clients; a task with an empty
\* assignedTo or clientId has no such error.
C7_References ==
    LET errors == ValidateCrossReferences(clients, workers, tasks)
        Found(i, key) == Cardinality({n \in 1..Len(errors) :
                                         errors[n].row = i /\ errors[n].field = key})
        Expected(i, key, ids) ==
            LET v == Get(tasks[i], key)
            IN  IF IsStr(v) /\ v.s # <<>> /\ v.s \notin ids THEN 1 ELSE 0
    IN  \A i \in 1..Len(tasks) :
            /\ Found(i, k_assignedTo) = Expected(i, k_assignedTo, IdSet(workers))
            /\ Found(i, k_clientId) = Expected(i, k_clientId, IdSet(clients))

\* C11: in every validation result held by the store, whether returned by
\* parseFile / validateData at an upload or written by the store's
\* validateCrossReferences, isValid is true exactly when errors is empty.
C11_IsValidIffNoErrors ==
    \A validation \in {clientValidationResults, workerValidationResults,
                        taskValidationResults} :
        validation # Null => (validation.isValid <=> Len(validation.errors) = 0)

\* the store holds a valid result without errors (the clients), the result
\* of an upload with file-level errors only (the workers) and a result
\* written by validateCrossReferences
C11_Witness ==
    /\ lastOp = "validateCrossReferences"
    /\ clientValidationResults # Null /\ clientValidationResults.isValid
    /\ Len(clientValidationResults.data) > 0
    /\ workerValidationResults # Null /\ ~workerValidationResults.isValid
    /\ taskValidationResults # Null
    /\ "validData" \in DOMAIN taskValidationResults
    /\ Len(taskValidationResults.errors)
           > Len(taskValidationResults.validData) + 2


\* C12: for the workers and tasks of the store, required(p) being the sum of
\* duration x maxConcurrent over the tasks for each occurrence of p in their
\* preferredPhases and available(p) the sum of maxLoadPerPhase over the
\* workers for each occurrence of p in their availableSlots,
\* validateWorkerCapacity returns exactly one error for each phase p with
\* required(p) > available(p), of row 0, its message stating p, required(p)
\* and available(p), and no other error.
C12_PhaseSaturation ==
    LET errors == ValidateWorkerCapacity(workers, tasks)
        Required(p) ==
            SumTo([i \in 1..Len(tasks) |->
                      IF Occurrences(tasks[i], k_preferredPhases, p) = 0 THEN 0
                      ELSE Occurrences(tasks[i], k_preferredPhases, p)
                             * tasks[i][k_duration].n * tasks[i][k_maxConcurrent].n],
                  Len(tasks))
        Available(p) ==
            SumTo([i \in 1..Len(workers) |->
                      IF Occurrences(workers[i], k_availableSlots, p) = 0 THEN 0
                      ELSE Occurrences(workers[i], k_availableSlots, p)
                             * workers[i][k_maxLoadPerPhase].n],
                  Len(workers))
        Phases == UNION ({Elements(tasks[i], k_preferredPhases) : i \in 1..Len(tasks)}
                         \cup {Elements(workers[i], k_availableSlots) :
                                  i \in 1..Len(workers)})
        Message(p) == <<"Phase ">> \o IntToString(p)
                      \o <<" is oversaturated: requires ">>
                      \o IntToString(Required(p)) \o <<" slots, only ">>
                      \o IntToString(Available(p)) \o <<" available">>
    IN  /\ \A p \in Phases :
               Cardinality({n \in 1..Len(errors) : errors[n].message = Message(p)})
                 = IF Required(p) > Available(p) THEN 1 ELSE 0
        /\ \A n \in 1..Len(errors) :
               /\ errors[n].row = 0
               /\ \E p \in Phases : /\ Required(p) > Available(p)
                                     /\ errors[n].message = Message(p)

\* phase 1 asks for 12 (2 x 1 and 5 x 2) of the 8 a worker offers and is
\* reported; phase 2 asks for 2 of 8 and is not
C12_Witness ==
    LET errors == ValidateWorkerCapacity(workers, tasks)
    IN  /\ Len(errors) = 1
        /\ errors[1].message = <<"Phase ", "1", " is oversaturated: requires ",
                                 "1", "2", " slots, only ", "8", " available">>
        /\ \E i \in 1..Len(tasks) : 2 \in Elements(tasks[i], k_preferredPhases)
        /\ \E i \in 1..Len(workers) : 2 \in Elements(workers[i], k_availableSlots)

\* C13: for the workers and tasks of the store, validateSkillCoverage returns,
\* for each occurrence of a skill in the requiredSkills of the task at index
\* i - 1, one error of row i and field requiredSkills naming that skill when
\* no skill of any worker equals it once both are lower-cased and trimmed,
\* none when some worker's skill does, and no other error.
C13_SkillCoverage ==
    LET errors == ValidateSkillCoverage(workers, tasks)
        Covered(skill) ==
            \E w \in 1..Len(workers) : \E held \in Elements(workers[w], k_skills) :
                Trim(ToLowerCase(held)) = Trim(ToLowerCase(skill))
    IN  /\ \A i \in 1..Len(tasks) :
               \A skill \in Elements(tasks[i], k_requiredSkills) :
                   Cardinality({n \in 1..Len(errors) :
                                   /\ errors[n].row = i
                                   /\ errors[n].field = k_requiredSkills
                                   /\ errors[n].value = Str(skill)})
                     = IF Covered(skill) THEN 0
                       ELSE Occurrences(tasks[i], k_requiredSkills, skill)
        /\ \A n \in 1..Len(errors) :
               /\ errors[n].field = k_requiredSkills
               /\ errors[n].row \in 1..Len(tasks)
               /\ errors[n].value.s \in Elements(tasks[errors[n].row], k_requiredSkills)
               /\ ~Covered(errors[n].value.s)

\* a worker holds "React": the task asking for "react" has no error, the task
\* asking for "React, Go" has one, for "Go"
C13_Witness ==
    LET errors == ValidateSkillCoverage(workers, tasks)
    IN  /\ \E w \in 1..Len(workers) :
               <<"R", "e", "a", "c", "t">> \in Elements(workers[w], k_skills)
        /\ \E i \in 1..Len(tasks) :
               <<"r", "e", "a", "c", "t">> \in Elements(tasks[i], k_requiredSkills)
        /\ Len(errors) = 1
        /\ errors[1].value = Str(<<"G", "o">>)
        /\ <<"R", "e", "a", "c", "t">>
               \in Elements(tasks[errors[1].row], k_requiredSkills)

\* C16: after validateCrossReferences has run, for every client of the store
\* and every id in its requestedTaskIDs that is the id of no task, the
\* validation results of the store hold an error of field requestedTaskIDs.
C16_RequestedTasksChecked ==
    LET Reported(validation) ==
            /\ validation # Null
            /\ \E n \in 1..Len(validation.errors) :
                   validation.errors[n].field = k_requestedTaskIDs
    IN  lastOp = "validateCrossReferences" =>
            \A c \in 1..Len(clients) :
                \A id \in Elements(clients[c], k_requestedTaskIDs) :
                    id \notin IdSet(tasks) =>
                        \/ Reported(clientValidationResults)
                        \/ Reported(taskValidationResults)

\* C26: after validateCrossReferences has run, every error of
\* taskValidationResults that reports a missing reference, a circular
\* dependency, an uncovered skill or a saturated phase is an error that the
\* four validators find in the collections as they are now; errors merged by
\* earlier runs that no longer apply are gone.
C26_NoStaleErrors ==
    (lastOp = "validateCrossReferences" /\ taskValidationResults # Null) =>
        \A n \in 1..Len(taskValidationResults.errors) :
            LET error == taskValidationResults.errors[n]
                current == AllNewErrors(clients, workers, tasks)
            IN  error.message[1] \in {"Worker ID \"", "Client ID \"",
                                      "Dependency task ID \"",
                                      "Circular dependency detected: ",
                                      "Required skill \"", "Phase "}
                    => \E m \in 1..Len(current) : current[m] = error

\* C27: saving an edit of one task row changes that row only: there is a row
\* index such that every other row of tasks is what it was, and clients,
\* workers and the three validation results are unchanged; this holds also
\* when another row carries the id of the edited row.
C27_EditChangesOneRow ==
    [][lastOp' = "updateTask" =>
          /\ Len(tasks') = Len(tasks)
          /\ \E i \in 1..Len(tasks) :
                 \A j \in 1..Len(tasks) : j # i => tasks'[j] = tasks[j]
          /\ clients' = clients
          /\ workers' = workers
          /\ clientValidationResults' = clientValidationResults
          /\ workerValidationResults' = workerValidationResults
          /\ taskValidationResults' = taskValidationResults]_vars

-----------------------------------------------------------------------------
(* Properties of AIService.suggestHeaderMapping, over the behaviours of      *)
(* HeaderSpec                                                                *)

\* C17: for every header of the call, n being its normalized form: when n
\* equals the lower-cased name of a canonical field, the header is mapped to
\* such a field with confidence 1.0; else, when n equals a normalized alias of
\* a field, to such a field with confidence 0.9; else, when n contains a
\* field's name or is contained in it, to such a field with confidence 0.7;
\* else the header is absent from the mappings.
C17_TierPriority ==
    lastOp = "suggestHeaderMapping" =>
        \A h \in 1..Len(input.headers) :
            LET n == NormalizeHeader(input.headers[h])
                expected == GetExpectedHeaders(input.entityType)
                Exact == {expected[i].field : i \in {j \in 1..Len(expected) :
                              ToLowerCase(expected[j].field) = n}}
                Alias == {expected[i].field : i \in {j \in 1..Len(expected) :
                              \E a \in 1..Len(expected[j].aliases) :
                                  NormalizeHeader(expected[j].aliases[a]) = n}}
                Partial == {expected[i].field : i \in {j \in 1..Len(expected) :
                              \/ IncludesString(n, ToLowerCase(expected[j].field))
                              \/ IncludesString(ToLowerCase(expected[j].field), n)}}
                found == {m \in 1..Len(output) : output[m].original = input.headers[h]}
                Mapped(fields, confidence) ==
                    /\ found # {}
                    /\ \A m \in found : /\ output[m].suggested \in fields
                                         /\ output[m].confidence = confidence
            IN  IF Exact # {} THEN Mapped(Exact, 10)
                ELSE IF Alias # {} THEN Mapped(Alias, 9)
                ELSE IF Partial # {} THEN Mapped(Partial, 7)
                ELSE found = {}

-----------------------------------------------------------------------------
(* Properties of the rule builder, over the behaviours of RuleBuilderSpec *)

\* the parameters have the shape of the rule type: a co-run rule names task
\* ids, a slot-restriction rule a group tag and at least 1 common slot, a
\* load-limit rule a worker group and at least 1 slot per phase
WellShaped(rule) ==
    LET type == rule.type.s[1]
        Given(key) == Get(rule.parameters.o, key)
    IN  CASE type = "co-run" -> Truthy(Given("taskIds"))
          [] type = "slot-restriction" ->
                /\ Truthy(Given("groupTag"))
                /\ IsNum(Given("minCommonSlots")) /\ Given("minCommonSlots").n >= 1
          [] type = "load-limit" ->
                /\ Truthy(Given("workerGroup"))
                /\ IsNum(Given("maxSlotsPerPhase")) /\ Given("maxSlotsPerPhase").n >= 1
          [] OTHER -> TRUE

\* C18: addRule on a form whose parameters do not have the shape of its rule
\* type (a slot-restriction rule without groupTag or with minCommonSlots < 1,
\* a load-limit rule with maxSlotsPerPhase < 1, a co-run rule without task
\* ids) leaves the rule list unchanged.
C18_RejectsMismatch ==
    [][(lastOp' = "addRule" /\ ~WellShaped(currentRule)) => rules' = rules]_vars

\* C28: confirming an update (addRule while an edit is open, the form being
\* accepted) replaces the rule that was opened for editing and nothing else:
\* the list keeps its length, the opened rule is in the list, and every rule
\* at another position is unchanged, whatever deletions came in between.
C28_UpdateReplacesOpenedRule ==
    [][(lastOp' = "addRule" /\ editingIndex # Null /\ editingIndex' = Null) =>
          /\ Len(rules') = Len(rules)
          /\ \E i \in 1..Len(rules) :
                 /\ rules[i] # Undef
                 /\ rules[i].id = currentRule.id
                 /\ \A j \in 1..Len(rules) : j # i => rules'[j] = rules[j]]_vars

\* C29: at every moment the rules are ordered by non-decreasing priority
\* (rules of equal priority then stand in the order of their insertion, an
\* added rule coming last among its equals).
C29_OrderedByPriority ==
    \A i, j \in 1..Len(rules) :
        (i < j /\ rules[i] # Undef /\ rules[j] # Undef)
            => rules[i].priority.n <= rules[j].priority.n

-----------------------------------------------------------------------------
(* Properties of the preferredPhases transform, over the behaviours of       *)
(* PhasesSpec                                                                *)

\* the position of the first c in s, Len(s) + 1 when there is none
FirstIndex(s, c) ==
    IF Includes(s, c) THEN CHOOSE i \in 1..Len(s) : s[i] = c /\ \A j \in 1..(i - 1) : s[j] # c
    ELSE Len(s) + 1

\* the integers of the tokens of a comma list, in the order of the tokens
TokenNumbers(s) ==
    LET tokens == Split(s, ",")
        numeric == SelectSeq(tokens, LAMBDA token : IsNum(ParseInt(Trim(token))))
    IN  [i \in 1..Len(numeric) |-> ParseInt(Trim(numeric[i])).n]

\* C21: a value start-end (no comma; the texts before and after the first
\* '-' both read as integers, start <= end) coerces to the sequence
\* start..end; any other value coerces to the integers of its comma-separated
\* tokens, in their order, tokens that are no number left out.
C21_RangeOrList ==
    lastOp = "preferredPhases" =>
        LET dash == FirstIndex(input, "-")
            start == ParseInt(Trim(SubSeq(input, 1, dash - 1)))
            end == ParseInt(Trim(SubSeq(input, dash + 1, Len(input))))
        IN  output.a =
                IF /\ Includes(input, "-") /\ ~Includes(input, ",")
                   /\ IsNum(start) /\ IsNum(end) /\ start.n <= end.n
                THEN [i \in 1..(end.n - start.n + 1) |-> start.n + i - 1]
                ELSE TokenNumbers(input)

-----------------------------------------------------------------------------
(* Properties of FileParser.parseFile, over the behaviours of FileSpec *)

\* C22: when the file cannot be read or its extension is not supported,
\* parseFile returns (no exception leaves it) a result with data = [], exactly
\* one error, of row 0 and field 'file', isValid = false and a summary of
\* zeros.
C22_FailureIsAResult ==
    (/\ lastOp = "parseFile"
     /\ ~input.file.readable \/ input.file.extension \notin {"csv", "xlsx", "xls"})
        => /\ output # Thrown
           /\ output.data = <<>>
           /\ Len(output.errors) = 1
           /\ output.errors[1].row = 0
           /\ output.errors[1].field = k_file
           /\ output.isValid = FALSE
           /\ output.summary = [totalRows |-> 0, validRows |-> 0, invalidRows |-> 0]

\* a file with rows and an extension that is not supported has been parsed
C22_Witness ==
    /\ lastOp = "parseFile"
    /\ input.file.extension = "txt" /\ input.file.readable
    /\ Len(input.file.rows) > 0
    /\ output.data = <<>>
    /\ output.errors[1].field = k_file

-----------------------------------------------------------------------------
(* Properties of FileParser.validateCircularDependencies, over the           *)
(* behaviours of CycleSpec                                                   *)

\* the ids of the tasks of the input
InputIds == {JsString(Get(input.tasks[i], k_id)) : i \in 1..Len(input.tasks)}

\* task a names task b in its dependencies
DependsOn(a, b) ==
    \E i \in 1..Len(input.tasks) :
        /\ JsString(Get(input.tasks[i], k_id)) = a
        /\ \E n \in 1..Len(DependencyTokens(input.tasks[i])) :
               DependencyTokens(input.tasks[i])[n] = b

\* b is reached from a along at most n dependencies, at least one
RECURSIVE Reaches(_, _, _)
Reaches(a, b, n) ==
    /\ n > 0
    /\ \/ DependsOn(a, b)
       \/ \E c \in InputIds : DependsOn(a, c) /\ Reaches(c, b, n - 1)

OnCycle(a) == Reaches(a, a, Len(input.tasks))

\* the ids of the chain an error renders
ChainOf(error) == Split(error.value.s, Arrow[1])

\* C23: every task with a 'Circular dependency detected' error lies on a
\* cycle of the dependencies, and the chain of the message is a cycle: each
\* id depends on the next and the last is the first.
C23_ReportedOnCycle ==
    lastOp = "validateCircularDependencies" =>
        \A n \in 1..Len(output.errors) :
            LET error == output.errors[n]
                chain == ChainOf(error)
            IN  /\ error.row \in 1..Len(input.tasks)
                /\ OnCycle(JsString(Get(input.tasks[error.row], k_id)))
                /\ Len(chain) >= 2
                /\ chain[Len(chain)] = chain[1]
                /\ \A k \in 1..(Len(chain) - 1) : DependsOn(chain[k], chain[k + 1])

\* a and b are joined by dependencies taken in either direction
RECURSIVE Linked(_, _, _)
Linked(a, b, n) ==
    \/ a = b
    \/ /\ n > 0
       /\ \E c \in InputIds : (DependsOn(a, c) \/ DependsOn(c, a)) /\ Linked(c, b, n - 1)

\* C24: the circular-dependency errors of tasks of one weakly-connected
\* cluster all carry the same message.
C24_OneCyclePerCluster ==
    lastOp = "validateCircularDependencies" =>
        \A m, n \in 1..Len(output.errors) :
            Linked(JsString(Get(input.tasks[output.errors[m].row], k_id)),
                   JsString(Get(input.tasks[output.errors[n].row], k_id)),
                   Len(input.tasks))
                => output.errors[m].message = output.errors[n].message

-----------------------------------------------------------------------------
(* Properties of the cycle search run statement by statement, over the       *)
(* behaviours of CycleStepLive                                               *)

\* C25: the search ends on every collection of tasks (self-dependencies,
\* chains and several cycles included), and at every moment the dependency
\* list of each task has been expanded at most once.
C25_SearchTerminates ==
    /\ <>(search.pc = "done")
    /\ [](\A i, j \in 1..Len(search.expanded) :
              search.expanded[i] = search.expanded[j] => i = j)

\* the search has ended after expanding every task of a collection of
\* MaxTasks tasks in which a task depends on itself and errors were reported
C25_Witness ==
    /\ search # Null /\ search.pc = "done"
    /\ Len(input.tasks) = MaxTasks
    /\ Len(search.expanded) = MaxTasks
    /\ search.errors # <<>>
    /\ \E i \in 1..Len(input.tasks) :
           Get(input.tasks[i], k_id) = Get(input.tasks[i], k_dependencies)

-----------------------------------------------------------------------------
(* Properties of the DataGrid (GridSpec) *)

\* C30: under any filter and sort order, the errors shown for a displayed
\* row are those whose row number is the original position of its entity
\* + 1, and saving the edit of a displayed row changes the entity displayed
\* in that row and no other.
C30_RowsKeepTheirIdentity ==
    /\ [](\A index \in 0..(Len(Displayed) - 1) :
              GetRowErrors(GridValidationErrors, index)
                  = SelectSeq(GridValidationErrors,
                              LAMBDA error : error.row = Displayed[index + 1] + 1))
    /\ [][lastOp' = "saveEditing"
            => \E index \in (0..(Len(Displayed) - 1)) \cap grid.editingRows :
                   /\ index \notin grid'.editingRows
                   /\ \A i \in 1..Len(tasks) :
                          i # Displayed[index + 1] + 1 => tasks'[i] = tasks[i]]_vars

=============================================================================
